---- MODULE Spec2Model ----
(***************************************************************************)
(* A model of godep/gonode: the ordered symbol tree (add, sortkeys,        *)
(* traverse), the cross-referencer defs4refs, the interface-satisfaction   *)
(* engine typesets, and the graph builder node/nodegraph.                  *)
(*                                                                         *)
(* Go strings are modelled as sequences of byte values, so that byte-wise  *)
(* comparison, strings.Trim, strings.Cut, strings.Contains, path.Dir and   *)
(* fmt.Sprintf are computed rather than assumed.  A Go map is a function   *)
(* from its keys; the iteration order of a map is a nondeterministic       *)
(* choice.                                                                 *)
(***************************************************************************)
EXTENDS Naturals, Integers, Sequences, FiniteSets, TLC

VARIABLES
    \* ---- ordered symbol tree under test (add/sortkeys/traverse)
    tr,         \* the tree add() is applied to
    addArg,     \* the nodes argument of the last add() call
    trBefore,   \* the tree as it was when the last add() call was made
    nAdds,      \* number of add() calls made
    ranged,     \* the keys of tr in the order the range loop of the last sortkeys() call produced them
    sorted,     \* the slice the last sortkeys() call returned
    visited,    \* the calls fn(indent, s) the last traverse() call made, in order
    \* ---- the symbol trees of the analysis (visitor.go)
    dirmod,     \* directory of the analysed module
    imps, ifcs, typs, vals, fncs, defs, refs, sets,
    \* ---- control state of Main's phases
    phase,      \* which specification / phase is running
    pend,       \* keys of the outer range loop not yet produced
    cur,        \* key the outer range loop is at (or None)
    must,       \* inner range loop: entries that must still be produced
    may,        \* inner range loop: entries created during the iteration
    in0,        \* the tree the running phase was started on (its input)
    \* ---- the graph builder (nodegraph.go)
    gomod,      \* import path of the analysed module
    dirmap,     \* source directory paths -> their top-level subgraphs
    graphmap,   \* top-level subgraph -> its graphviz subgraph statement
    subgmap,    \* 'branch' package paths -> graphviz subgraph statements
    nodemap,    \* 'leaf' package paths -> graphviz node statements
    heap,       \* the maps of the nodes tree; heap[1] is nodes itself
    edges,      \* all the links between nodes
    loop,       \* position of nodegraph's range loops and their locals
    pairs,      \* history: the (referencer, target) pairs as node() resolved them
    graph,      \* the text nodegraph returned (None before it returns)
    prev,       \* the text the previous run over the same input returned
    \* ---- walking and parsing the directories (main.go, parse)
    fsys,       \* the file system: the directories that cannot be read or parsed
    loader,     \* what parse() loads a directory with: parser.ParseDir or packages.Load
    parsedDirs, \* parsedDirs records that a directory has been parsed
    scannedPkgs,\* scannedPkgs records that a package has been scanned
    astWalks,   \* history: number of ast.Walk calls parse() made per (directory, package)
    scanWalks,  \* history: number of times scan() walked the syntax of a package directory
    again,      \* history: the directories parse() was called with more than once
    failures,   \* history: the errors the callback of filepath.WalkDir returned
    err,        \* the error Main returned (None when it returned none)
    \* ---- calls of single functions
    calls,      \* history: the node() calls made, with what each returned
    left,       \* entries the range over an interface's members can still produce
    fnc,        \* the *ast.FuncType signature() is called with
    sgn         \* the string signature() returned (None before the call)

treeVars == <<tr, addArg, trBefore, nAdds, ranged, sorted, visited>>
symVars  == <<dirmod, imps, ifcs, typs, vals, fncs, defs, refs, sets>>
ctlVars  == <<phase, pend, cur, must, may, in0>>
graphVars == <<gomod, dirmap, graphmap, subgmap, nodemap, heap, edges, loop, pairs, graph, prev>>
walkVars == <<fsys, loader, parsedDirs, scannedPkgs, astWalks, scanWalks, again, failures, err>>
callVars == <<calls, left, fnc, sgn>>
vars     == <<treeVars, symVars, ctlVars, graphVars, walkVars, callVars>>

None == <<0>>

\* the value of a variable that holds a slice of strings when no call has set it
NoCall == <<None>>

(***************************************************************************)
(* Strings.                                                                *)
(***************************************************************************)

\* Go's < on strings: byte-wise lexicographic comparison.
StrLess(a, b) ==
    LET n == IF Len(a) < Len(b) THEN Len(a) ELSE Len(b)
    IN  IF \A i \in 1..n : a[i] = b[i] THEN Len(a) < Len(b)
        ELSE LET d == CHOOSE i \in 1..n : a[i] # b[i] /\ \A j \in 1..(i - 1) : a[j] = b[j]
             IN  a[d] < b[d]

\* strings.TrimLeft(s, cutset), cutset given as a set of bytes.
RECURSIVE TrimLeft(_, _)
TrimLeft(s, cutset) ==
    IF s # <<>> /\ s[1] \in cutset THEN TrimLeft(Tail(s), cutset) ELSE s

\* strings.TrimRight(s, cutset).
RECURSIVE TrimRight(_, _)
TrimRight(s, cutset) ==
    IF s # <<>> /\ s[Len(s)] \in cutset
    THEN TrimRight(SubSeq(s, 1, Len(s) - 1), cutset)
    ELSE s

\* strings.Trim(s, cutset).
Trim(s, cutset) == TrimRight(TrimLeft(s, cutset), cutset)

\* the cutset "*()" of sortkeys
MarkerBytes == {42, 40, 41}

\* strings.HasPrefix(s, p)
HasPrefix(s, p) == Len(s) >= Len(p) /\ SubSeq(s, 1, Len(p)) = p

\* strings.Index(s, sub): the first position (from 1) where sub occurs in s, 0 if none.
Index(s, sub) ==
    LET hits == {i \in 1..(Len(s) + 1) : HasPrefix(SubSeq(s, i, Len(s)), sub)}
    IN  IF hits = {} THEN 0 ELSE CHOOSE i \in hits : \A j \in hits : i <= j

\* strings.Contains(s, sub)
Contains(s, sub) == Index(s, sub) # 0

\* strings.Cut(s, sep): <<before, after, found>>
Cut(s, sep) ==
    LET i == Index(s, sep)
    IN  IF i = 0 THEN <<s, <<>>, FALSE>>
        ELSE <<SubSeq(s, 1, i - 1), SubSeq(s, i + Len(sep), Len(s)), TRUE>>

(***************************************************************************)
(* The ordered symbol tree: type t[T] map[T]t[T].                          *)
(***************************************************************************)

\* tree{} / t[T]{}
EmptyTree == <<>>

\* add with the existence test dropped: an existing child is replaced by an empty tree.
RECURSIVE addReplacing(_, _)
addReplacing(tree, nodes) ==
    IF Len(nodes) > 0
    THEN [k \in DOMAIN tree \cup {nodes[1]} |->
            IF k = nodes[1] THEN addReplacing(EmptyTree, Tail(nodes)) ELSE tree[k]]
    ELSE tree

\* add inserts a node into a tree.
RECURSIVE add(_, _)
add(tree, nodes) ==
    IF Len(nodes) > 0
    THEN LET child == IF nodes[1] \in DOMAIN tree THEN tree[nodes[1]] ELSE EmptyTree
         IN  [k \in DOMAIN tree \cup {nodes[1]} |->
                IF k = nodes[1] THEN add(child, Tail(nodes)) ELSE tree[k]]
    ELSE tree

\* the comparator of sortkeys with the keys compared as they are
lessUntrimmed(keyi, keyj) == StrLess(keyi, keyj)

\* the comparator sortkeys hands to sort.Slice
less(keyi, keyj) ==
    LET ti == Trim(keyi, MarkerBytes)
        tj == Trim(keyj, MarkerBytes)
    IN  StrLess(ti, tj) \/ (ti = tj /\ StrLess(keyi, keyj))

\* sort.Slice over a set of distinct keys: the comparator is a strict total
\* order on distinct keys, so the result does not depend on the order in
\* which the range loop filled the slice.
RECURSIVE sortSlice(_)
sortSlice(keys) ==
    IF keys = {} THEN <<>>
    ELSE LET m == CHOOSE k \in keys : \A o \in keys \ {k} : less(k, o)
         IN  <<m>> \o sortSlice(keys \ {m})

\* sortkeys sorts the keys for the top nodes of a tree and returns a slice of the keys.
sortkeys(tree) == sortSlice({key \in DOMAIN tree : key # <<>>})

\* traverse with fn called after the descent into the children
RECURSIVE traversePost(_, _)
RECURSIVE traverseKeysPost(_, _, _)
traverseKeysPost(tree, keys, indent) ==
    IF keys = <<>> THEN <<>>
    ELSE traversePost(tree[keys[1]], indent + 1) \o <<<<indent, keys[1]>>>>
         \o traverseKeysPost(tree, Tail(keys), indent)
traversePost(tree, indent) == traverseKeysPost(tree, sortkeys(tree), indent)

\* traverse walks the tree and invokes fn for each node; the result is the
\* sequence of fn's arguments <<indent, key>> in call order.
RECURSIVE traverse(_, _)
RECURSIVE traverseKeys(_, _, _)
traverseKeys(tree, keys, indent) ==
    IF keys = <<>> THEN <<>>
    ELSE <<<<indent, keys[1]>>>> \o traverse(tree[keys[1]], indent + 1)
         \o traverseKeys(tree, Tail(keys), indent)
traverse(tree, indent) == traverseKeys(tree, sortkeys(tree), indent)

\* every path (non-empty key sequence) present in a tree
RECURSIVE PathsOf(_)
PathsOf(tree) ==
    UNION {{<<k>>} \cup {<<k>> \o p : p \in PathsOf(tree[k])} : k \in DOMAIN tree}

\* the non-empty prefixes of a key sequence
Prefixes(nodes) == {SubSeq(nodes, 1, n) : n \in 1..Len(nodes)}

\* the subtree at a path of a tree
RECURSIVE SubtreeAt(_, _)
SubtreeAt(tree, p) == IF p = <<>> THEN tree ELSE SubtreeAt(tree[p[1]], Tail(p))

(***************************************************************************)
(* Specification SpecTree: add() applied to a tree, any paths in any order.*)
(***************************************************************************)

\* "Foo"
kFoo == <<70, 111, 111>>
\* "*Foo"
kStarFoo == <<42, 70, 111, 111>>
\* "(Foo)"
kParFoo == <<40, 70, 111, 111, 41>>
\* "Bar"
kBar == <<66, 97, 114>>

\* keys add() is called with; "" is the key sortkeys leaves out
TreeKeys == {<<>>, kFoo, kStarFoo, kParFoo, kBar}

MaxAdds == 3
MaxPath == 2

RECURSIVE SeqsUpTo(_, _)
SeqsUpTo(S, n) ==
    IF n = 0 THEN {<<>>}
    ELSE LET shorter == SeqsUpTo(S, n - 1)
         IN  shorter \cup {<<k>> \o p : k \in S, p \in {q \in shorter : Len(q) = n - 1}}

TreePaths == SeqsUpTo(TreeKeys, MaxPath)

IdleSym ==
    /\ dirmod = <<>>
    /\ imps = EmptyTree /\ ifcs = EmptyTree /\ typs = EmptyTree
    /\ vals = EmptyTree /\ fncs = EmptyTree /\ defs = EmptyTree
    /\ refs = EmptyTree /\ sets = EmptyTree

IdleCtl == pend = {} /\ cur = None /\ must = {} /\ may = {} /\ in0 = EmptyTree

IdleTree ==
    /\ tr = EmptyTree /\ addArg = <<>> /\ trBefore = EmptyTree /\ nAdds = 0
    /\ ranged = NoCall /\ sorted = NoCall /\ visited = NoCall

IdleWalk ==
    /\ fsys = None /\ loader = None /\ parsedDirs = {} /\ scannedPkgs = {}
    /\ astWalks = <<>> /\ scanWalks = <<>> /\ again = {} /\ failures = {} /\ err = None

IdleCalls == calls = <<>> /\ left = 0 /\ fnc = None /\ sgn = None

IdleGraph ==
    /\ gomod = <<>> /\ dirmap = <<>> /\ graphmap = <<>>
    /\ subgmap = <<>> /\ nodemap = <<>> /\ heap = <<>> /\ edges = EmptyTree
    /\ loop = None /\ pairs = {} /\ graph = None /\ prev = None

InitTree ==
    /\ IdleTree
    /\ IdleWalk
    /\ IdleCalls
    /\ IdleGraph
    /\ IdleSym
    /\ IdleCtl
    /\ phase = "tree"

\* one call add(tr, nodes...)
Add(nodes) ==
    /\ phase = "tree"
    /\ nAdds < MaxAdds
    /\ tr' = add(tr, nodes)
    /\ addArg' = nodes
    /\ trBefore' = tr
    /\ nAdds' = nAdds + 1
    /\ UNCHANGED <<ranged, sorted, visited, symVars, ctlVars, graphVars, callVars, walkVars>>

NextTree == \E nodes \in TreePaths : Add(nodes)

SpecTree == InitTree /\ [][NextTree]_vars

\* C10: add(tree, k1..kn) creates every node along the path, never removes or
\* replaces an existing key or subtree, and leaves the whole tree unchanged
\* when the path already exists.
C10_AddCreatesAndIsIdempotent ==
    nAdds > 0 =>
        /\ Prefixes(addArg) \subseteq PathsOf(tr)
        /\ PathsOf(trBefore) \subseteq PathsOf(tr)
        /\ PathsOf(tr) = PathsOf(trBefore) \cup Prefixes(addArg)
        /\ (Prefixes(addArg) \subseteq PathsOf(trBefore) => tr = trBefore)

\* a two-key path was added again to a tree that already held it and more
C10_Witness ==
    /\ nAdds = MaxAdds
    /\ Len(addArg) = 2
    /\ addArg \in PathsOf(trBefore)
    /\ SubtreeAt(trBefore, <<addArg[1]>>) # SubtreeAt(add(EmptyTree, addArg), <<addArg[1]>>)
    /\ tr = trBefore

(***************************************************************************)
(* Paths: path.Join, filepath.Rel and subdir (utils.go).                   *)
(***************************************************************************)

\* strings.Split(s, sep) for a one-byte separator, sep given as that byte
RECURSIVE Split(_, _)
Split(s, sep) ==
    LET i == Index(s, <<sep>>)
    IN  IF i = 0 THEN <<s>>
        ELSE <<SubSeq(s, 1, i - 1)>> \o Split(SubSeq(s, i + 1, Len(s)), sep)

\* strings.Join(elems, sep)
RECURSIVE Join(_, _)
Join(elems, sep) ==
    IF elems = <<>> THEN <<>>
    ELSE IF Len(elems) = 1 THEN elems[1]
    ELSE elems[1] \o sep \o Join(Tail(elems), sep)

\* the elements of a cleaned absolute path ("/m/a" has the elements m, a)
Elems(pth) == SelectSeq(Split(pth, 47), LAMBDA e : e # <<>>)

\* number of leading elements two element lists share
RECURSIVE CommonLen(_, _)
CommonLen(bs, ts) ==
    IF bs # <<>> /\ ts # <<>> /\ bs[1] = ts[1]
    THEN 1 + CommonLen(Tail(bs), Tail(ts))
    ELSE 0

\* filepath.Rel(base, targ) on cleaned absolute paths: one ".." for every
\* element of base beyond the shared prefix, then the rest of targ; "." when
\* nothing is left.
Rel(base, targ) ==
    LET bs == Elems(base)
        ts == Elems(targ)
        n  == CommonLen(bs, ts)
        up == [i \in 1..(Len(bs) - n) |-> <<46, 46>>]
        el == up \o SubSeq(ts, n + 1, Len(ts))
    IN  IF el = <<>> THEN <<46>> ELSE Join(el, <<47>>)

\* subdir with a byte-prefix test in place of filepath.Rel
subdirByPrefix(base, targ) ==
    IF HasPrefix(targ, base)
    THEN [rel |-> SubSeq(targ, Len(base) + 1, Len(targ)), err |-> FALSE]
    ELSE [rel |-> <<>>, err |-> TRUE]

\* subdir acts like filepath.Rel() but returns an error if the target path is
\* not on the base path.
subdirOf(rel) ==
    IF Len(rel) > 1 /\ SubSeq(rel, 1, 2) = <<46, 46>>
    THEN [rel |-> <<>>, err |-> TRUE]
    ELSE [rel |-> rel, err |-> FALSE]
subdir(base, targ) == subdirOf(Rel(base, targ))

\* dir is root itself or lies beneath it: root's elements lead dir's elements
Under(root, dir) ==
    LET rs == Elems(root)
        ds == Elems(dir)
    IN  Len(rs) <= Len(ds) /\ SubSeq(ds, 1, Len(rs)) = rs

(***************************************************************************)
(* defs4refs (main.go): adds the definition location for each reference.   *)
(***************************************************************************)

\* a Go set-like tree: every key of S with an empty child
SetTree(S) == [k \in S |-> EmptyTree]

\* the first loop of defs4refs with the test dropped: nothing is deleted
keepAll(abss, mod) == abss

\* for abs := range abss { if subdir(dirmod, abs) fails { delete(abss, abs) } }
keepModule(abss, mod) ==
    [abs \in {a \in DOMAIN abss : ~subdir(mod, a).err} |-> abss[abs]]

\* the import branch of defs4refs without the module test: every import
\* directory becomes a target
importTargetsAll(ref, imports, mod) ==
    LET pkg == Cut(ref, <<46>>)[1]
    IN  IF pkg \in DOMAIN imports THEN DOMAIN imports[pkg] ELSE {}

\* pkg, _, _ := strings.Cut(ref, "."); the imports of pkg that are not in the module
importTargets(ref, imports, mod) ==
    LET pkg == Cut(ref, <<46>>)[1]
    IN  IF pkg \in DOMAIN imports
        THEN {imp \in DOMAIN imports[pkg] : subdir(mod, imp).err}
        ELSE {}

\* the definition branch of defs4refs with the module test of the import
\* branch applied to it
defTargetsOutside(ref, definitions, mod) ==
    {def \in DOMAIN definitions[ref] : subdir(mod, def).err}

\* for def := range defs[ref]
defTargets(ref, definitions, mod) == DOMAIN definitions[ref]

\* abss[abs][t] = tree{} for every remaining abs and every target t
addTargets(abss, targets) ==
    [abs \in DOMAIN abss |->
        [t \in DOMAIN abss[abs] \cup targets |->
            IF t \in targets THEN EmptyTree ELSE abss[abs][t]]]

\* one iteration of "for ref, abss := range refs"
Defs4refsIter(ref) ==
    /\ phase = "defs4refs"
    /\ ref \in pend
    /\ pend' = pend \ {ref}
    /\ LET abss == keepModule(refs[ref], dirmod)
       IN  IF DOMAIN abss = {}
           THEN refs' = [r \in DOMAIN refs \ {ref} |-> refs[r]]
           ELSE LET targets == IF ref \in DOMAIN defs
                               THEN defTargets(ref, defs, dirmod)
                               ELSE importTargets(ref, imps, dirmod)
                IN  refs' = [refs EXCEPT ![ref] = addTargets(abss, targets)]
    /\ UNCHANGED <<callVars, walkVars, treeVars, graphVars, dirmod, imps, ifcs, typs, vals, fncs, defs, sets>>
    /\ UNCHANGED <<phase, cur, must, may, in0>>

\* defs4refs has returned
Defs4refsDone == phase = "defs4refs" /\ pend = {}

(***************************************************************************)
(* Specification SpecRefs: defs4refs on the trees the extractor may leave. *)
(***************************************************************************)

\* "/m": the module root
dirM == <<47, 109>>
\* "/m/a", "/m/b": package directories of the module
dMa == <<47, 109, 47, 97>>
dMb == <<47, 109, 47, 98>>
\* "/mm": a directory beside the module whose name starts with the module's
dMM == <<47, 109, 109>>
\* "/i/x": a directory of an imported package
dIx == <<47, 105, 47, 120>>
\* "/s/f": a directory of a standard package
dSf == <<47, 115, 47, 102>>
\* "p.X", "q.Y": qualified symbol names
kpX == <<112, 46, 88>>
kqY == <<113, 46, 89>>
\* "p", "q": package names
pkgP == <<112>>
pkgQ == <<113>>

RefKeys == {kpX, kqY}
RefDirs == {dirM, dMa, dMM, dIx}
DefDirs == {dMa, dMb, dIx}
ImpDirs == {dSf, dIx, dMb}

\* most directories under one key of refs, defs or imps
MaxDirs == 2

\* the non-empty subsets of S with at most n elements
SmallSubsets(S, n) == {T \in SUBSET S : T # {} /\ Cardinality(T) <= n}

\* the trees of depth two add(tree, key, dir) calls build: every key of Keys'
\* subsets, each with a small non-empty set of directories
DirTrees(Keys, Dirs) ==
    UNION {[K -> {SetTree(D) : D \in SmallSubsets(Dirs, MaxDirs)}] : K \in SUBSET Keys}

InitRefs ==
    /\ IdleTree
    /\ IdleWalk
    /\ IdleCalls
    /\ IdleGraph
    /\ dirmod = dirM
    /\ refs \in {[k \in DOMAIN t |-> [d \in DOMAIN t[k] |-> EmptyTree]] :
                    t \in DirTrees(RefKeys, RefDirs)}
    /\ defs \in DirTrees({kpX}, DefDirs)
    /\ imps \in DirTrees({pkgQ}, ImpDirs)
    /\ ifcs = EmptyTree /\ typs = EmptyTree /\ vals = EmptyTree
    /\ fncs = EmptyTree /\ sets = EmptyTree
    /\ phase = "defs4refs"
    /\ pend = DOMAIN refs
    /\ cur = None /\ must = {} /\ may = {}
    /\ in0 = refs

NextRefs == \E ref \in RefKeys : Defs4refsIter(ref)

SpecRefs == InitRefs /\ [][NextRefs]_vars

\* the referencing directories of R, as extracted, that lie under the module root
ModuleReferencers(R) == {r \in DOMAIN in0[R] : Under(dirmod, r)}

\* the package-name prefix of a symbol key: what precedes its first '.'
PrefixOf(R) ==
    LET n == CHOOSE n \in 0..Len(R) :
                /\ \A i \in 1..n : R[i] # 46
                /\ (n < Len(R) => R[n + 1] = 46)
    IN  SubSeq(R, 1, n)

\* every directory that is a target of some referencer in abss
DirsOfAll(abss) == UNION {DOMAIN abss[r] : r \in DOMAIN abss}

\* C2: for a reference key with a Definitions entry, the resolved edges are
\* exactly the pairs (referencer under the module root, defining directory).
C2_DefinedEdges ==
    Defs4refsDone =>
        \A R \in DOMAIN in0 \cap DOMAIN defs :
            LET rs == ModuleReferencers(R)
                got   == IF R \in DOMAIN refs
                         THEN {e \in (DOMAIN refs[R]) \X DirsOfAll(refs[R]) :
                                    e[2] \in DOMAIN refs[R][e[1]]}
                         ELSE {}
            IN  got = rs \X (DOMAIN defs[R])

\* pkg.X defined in D1 = /m/b, referenced from D2 = /m/a (in the module) and
\* D3 = /i/x (outside): the result is exactly {D2 -> D1}
C2_Witness ==
    /\ Defs4refsDone
    /\ kpX \in DOMAIN in0 /\ DOMAIN in0[kpX] = {dMa, dIx}
    /\ kpX \in DOMAIN defs /\ DOMAIN defs[kpX] = {dMb}
    /\ kpX \in DOMAIN refs /\ DOMAIN refs[kpX] = {dMa}
    /\ DOMAIN refs[kpX][dMa] = {dMb}

\* C3: after defs4refs every remaining referencing directory is under the
\* module root and no key of References is left without referencers.
C3_OnlyModuleReferencers ==
    Defs4refsDone =>
        \A R \in DOMAIN refs :
            /\ DOMAIN refs[R] # {}
            /\ \A r \in DOMAIN refs[R] : Under(dirmod, r)

\* a key whose referencers were all outside the module has been deleted, and
\* another key has lost its outside referencer
C3_Witness ==
    /\ Defs4refsDone
    /\ DOMAIN in0 = {kpX, kqY}
    /\ DOMAIN in0[kpX] = {dMM, dIx}
    /\ DOMAIN in0[kqY] = {dirM, dMM}
    /\ DOMAIN refs = {kqY}
    /\ DOMAIN refs[kqY] = {dirM}

\* C4: for a reference key without a Definitions entry, the targets of every
\* remaining referencer are exactly the directories of Imports[prefix(R)]
\* that are not under the module root.
C4_ImportTargets ==
    Defs4refsDone =>
        \A R \in DOMAIN refs \ DOMAIN defs :
            \A r \in DOMAIN refs[R] :
                DOMAIN refs[R][r] =
                    IF PrefixOf(R) \in DOMAIN imps
                    THEN {i \in DOMAIN imps[PrefixOf(R)] : ~Under(dirmod, i)}
                    ELSE {}

\* q.Y has no definition; package q is imported from /s/f and from the
\* module's own /m/b: only /s/f becomes a target
C4_Witness ==
    /\ Defs4refsDone
    /\ kqY \in DOMAIN refs /\ kqY \notin DOMAIN defs
    /\ pkgQ \in DOMAIN imps /\ DOMAIN imps[pkgQ] = {dSf, dMb}
    /\ dMa \in DOMAIN refs[kqY]
    /\ DOMAIN refs[kqY][dMa] = {dSf}

(***************************************************************************)
(* typesets (main.go): finds the interfaces that types implement.          *)
(*                                                                         *)
(* A range loop over a map produces every entry that was present when the  *)
(* loop started and is not deleted before it is reached (must); an entry   *)
(* created during the loop may be produced or skipped (may).               *)
(***************************************************************************)

\* "(": what tells a method signature from an embedded interface name
LPAREN == <<40>>

\* the members ifcs[mth] contributes: the keys of trees[INTERFACES][mth], none
\* when mth is not a recorded interface (ranging over a nil map)
membersOf(interfaces, mth) ==
    IF mth \in DOMAIN interfaces THEN DOMAIN interfaces[mth] ELSE {}

\* the embedded member is deleted but the methods of the embedded interface
\* are not inserted
expandDropOnly(interfaces, ifc, mth) ==
    [interfaces EXCEPT ![ifc] = [k \in DOMAIN interfaces[ifc] \ {mth} |-> interfaces[ifc][k]]]

\* delete(mths, mth); for m := range ifcs[mth] { ifcs[ifc][m] = tree{} }
\* mths is ifcs[ifc] itself, so the deletion is seen by the range over
\* ifcs[mth] when mth = ifc.
expand(interfaces, ifc, mth) ==
    LET deleted == [interfaces EXCEPT ![ifc] =
                        [k \in DOMAIN interfaces[ifc] \ {mth} |-> interfaces[ifc][k]]]
        src     == membersOf(deleted, mth)
    IN  [deleted EXCEPT ![ifc] =
            [k \in DOMAIN deleted[ifc] \cup src |->
                IF k \in src THEN EmptyTree ELSE deleted[ifc][k]]]

\* the counter in a loop that counts the member before it tests it
possibleCountsEager(flds, mths) ==
    IF DOMAIN mths \subseteq DOMAIN flds
    THEN {Cardinality(DOMAIN mths)}
    ELSE 1..(Cardinality(DOMAIN mths \cap DOMAIN flds) + 1)

\* i := 0; for mth := range mths { if _, ok := flds[mth]; !ok { break }; i++ }
\* the values i can have after the loop, over every iteration order: the
\* loop counts the members it meets before the first one flds lacks.
possibleCounts(flds, mths) ==
    IF DOMAIN mths \subseteq DOMAIN flds
    THEN {Cardinality(DOMAIN mths)}
    ELSE 0..Cardinality(DOMAIN mths \cap DOMAIN flds)

\* the slots of the map a range loop goes through: it reaches each slot once,
\* so an entry created during the loop is produced only when it lies in a
\* free slot the loop has not reached yet (8 slots to a bucket of the Go
\* runtime's map)
MaxSlots == 8

\* a range loop that does not advance when it produces a created entry
reachedNever(n) == n

\* the free slots ahead of the loop after it produced a created entry
reached(n) == n - 1

\* for ifc, mths := range ifcs: the loop reaches interface ifc
TsExpandBegin(ifc) ==
    /\ phase = "expand"
    /\ cur = None
    /\ ifc \in pend
    /\ pend' = pend \ {ifc}
    /\ cur' = ifc
    /\ must' = DOMAIN ifcs[ifc]
    /\ may' = {}
    /\ left' = MaxSlots - Cardinality(DOMAIN ifcs[ifc])
    /\ UNCHANGED <<calls, fnc, sgn, walkVars, treeVars, graphVars, symVars, phase, in0>>

\* for mth := range mths: the loop produces member mth
TsExpandMth(mth) ==
    /\ phase = "expand"
    /\ cur # None
    /\ mth \in must \/ (mth \in may /\ left > 0)
    /\ left' = IF mth \in must THEN left ELSE reached(left)
    /\ IF ~Contains(mth, LPAREN)
       THEN /\ ifcs' = expand(ifcs, cur, mth)
            /\ may' = (may \ {mth}) \cup (DOMAIN ifcs'[cur] \ (DOMAIN ifcs[cur] \ {mth}))
       ELSE /\ ifcs' = ifcs
            /\ may' = may \ {mth}
    /\ must' = must \ {mth}
    /\ UNCHANGED <<calls, fnc, sgn, walkVars, treeVars, graphVars, dirmod, imps, typs, vals, fncs, defs, refs, sets>>
    /\ UNCHANGED <<phase, pend, cur, in0>>

\* the range over mths ends: nothing is left that must be produced
TsExpandEnd ==
    /\ phase = "expand"
    /\ cur # None
    /\ must = {}
    /\ cur' = None
    /\ may' = {}
    /\ left' = 0
    /\ UNCHANGED <<calls, fnc, sgn, walkVars, treeVars, graphVars, symVars, phase, pend, must, in0>>

\* the second loop starts on an emptied References tree
TsSatisfyStartClearing ==
    /\ phase = "expand"
    /\ cur = None
    /\ pend = {}
    /\ phase' = "satisfy"
    /\ pend' = DOMAIN typs
    /\ refs' = EmptyTree
    /\ UNCHANGED <<callVars, walkVars, treeVars, graphVars, cur, must, may, in0>>
    /\ UNCHANGED <<dirmod, imps, ifcs, typs, vals, fncs, defs, sets>>

\* the first loop of typesets is over, the second starts
TsSatisfyStart ==
    /\ phase = "expand"
    /\ cur = None
    /\ pend = {}
    /\ phase' = "satisfy"
    /\ pend' = DOMAIN typs
    /\ UNCHANGED <<callVars, walkVars, treeVars, graphVars, symVars, cur, must, may, in0>>

\* sets.Add(ifc, typ) for every interface of a set
RECURSIVE addEach(_, _, _)
addEach(implements, ifcSet, typ) ==
    IF ifcSet = {} THEN implements
    ELSE LET ifc == CHOOSE i \in ifcSet : TRUE
         IN  addEach(add(implements, <<ifc, typ>>), ifcSet \ {ifc}, typ)

\* one iteration of "for typ, flds := range typs": for every interface count
\* the members flds has, and record the type under the interfaces for which
\* the count reaches len(mths)
TsTyp(typ) ==
    /\ phase = "satisfy"
    /\ typ \in pend
    /\ pend' = pend \ {typ}
    /\ \E found \in SUBSET DOMAIN ifcs :
        /\ \A ifc \in DOMAIN ifcs :
            \E i \in possibleCounts(typs[typ], ifcs[ifc]) :
                (ifc \in found) <=> (i = Cardinality(DOMAIN ifcs[ifc]))
        /\ sets' = addEach(sets, found, typ)
    /\ UNCHANGED <<callVars, walkVars, treeVars, graphVars, dirmod, imps, ifcs, typs, vals, fncs, defs, refs>>
    /\ UNCHANGED <<phase, cur, must, may, in0>>

\* the expansion loop of typesets is over
TsExpanded == phase = "satisfy"

\* typesets has returned
TypesetsDone == phase = "satisfy" /\ pend = {} /\ cur = None

(***************************************************************************)
(* Specification SpecSets: typesets on the interfaces and types the        *)
(* extractor may leave.                                                    *)
(***************************************************************************)

\* "M()", "N()": method name + signature
sigM == <<77, 40, 41>>
sigN == <<78, 40, 41>>
\* "F int": a field descriptor
fldF == <<70, 32, 105, 110, 116>>
\* "p.I", "p.J", "p.K": qualified interface names
ifcI == <<112, 46, 73>>
ifcJ == <<112, 46, 74>>
ifcK == <<112, 46, 75>>
\* "p.T1", "p.T2", "p.T3": qualified type names
typ1 == <<112, 46, 84, 49>>
typ2 == <<112, 46, 84, 50>>
typ3 == <<112, 46, 84, 51>>

\* what addIfc records under an interface: signatures and embedded names
IfcMembers == {sigM, sigN, ifcI, ifcJ, ifcK}

\* the members the interfaces of the analysed source declare: p.I may embed
\* itself or p.J, p.J may embed p.I or p.K, p.K may embed p.J
MayDeclare(ifc) ==
    {sigM, sigN} \cup (IF ifc = ifcI THEN {ifcI, ifcJ}
                       ELSE IF ifc = ifcJ THEN {ifcI, ifcK}
                       ELSE {ifcJ})

\* most members addIfc records under one interface
MaxMembers == 2

\* addIfc records an interface only with a member; p.K may be an interface
\* that is embedded but was not extracted
InitSets ==
    /\ IdleTree
    /\ IdleWalk
    /\ IdleCalls
    /\ IdleGraph
    /\ dirmod = dirM
    /\ imps = EmptyTree /\ vals = EmptyTree /\ fncs = EmptyTree
    /\ defs = EmptyTree /\ refs = EmptyTree /\ sets = EmptyTree
    /\ \E names \in {{ifcI, ifcJ}, {ifcI, ifcJ, ifcK}} :
            ifcs \in {f \in [names -> {SetTree(M) : M \in SmallSubsets(IfcMembers, MaxMembers)}] :
                        \A n \in names : DOMAIN f[n] \subseteq MayDeclare(n)}
    /\ typs = (typ1 :> SetTree({sigM}) @@ typ2 :> SetTree({fldF})
                @@ typ3 :> SetTree({sigM, sigN}))
    /\ phase = "expand"
    /\ pend = DOMAIN ifcs
    /\ cur = None /\ must = {} /\ may = {}
    /\ in0 = ifcs

NextSets ==
    \/ \E ifc \in {ifcI, ifcJ, ifcK} : TsExpandBegin(ifc)
    \/ \E mth \in IfcMembers : TsExpandMth(mth)
    \/ TsExpandEnd
    \/ TsSatisfyStart
    \/ \E typ \in {typ1, typ2, typ3} : TsTyp(typ)

SpecSets == InitSets /\ [][NextSets]_vars

\* T is recorded under Implements[I]
Implements(I, T) == I \in DOMAIN sets /\ T \in DOMAIN sets[I]

\* C5: after typesets, T is recorded under Implements[I] if and only if every
\* member of the expanded member set of I is a descriptor of T.
C5_ImplementsIffSubset ==
    TypesetsDone =>
        \A T \in DOMAIN typs : \A I \in DOMAIN ifcs :
            Implements(I, T) <=> (DOMAIN ifcs[I] \subseteq DOMAIN typs[T])

\* I = {"M()"}: T1 = {"M()"} is recorded under I, T2 (without "M()") is not
C5_Witness ==
    /\ TypesetsDone
    /\ DOMAIN in0[ifcI] = {sigM}
    /\ Implements(ifcI, typ1)
    /\ ~Implements(ifcI, typ2)

\* C6: when J is recorded with the embedded name of I plus "N()" and I with
\* "M()", J requires "M()" and "N()" after the expansion pass, and only types
\* having both are recorded under Implements[J], in every visiting order.
C6_EmbeddingRequiresBoth ==
    \A A \in DOMAIN in0 : \A B \in DOMAIN in0 :
        (/\ phase = "satisfy"
         /\ DOMAIN in0[A] = {sigM}
         /\ DOMAIN in0[B] = {A, sigN})
        => /\ DOMAIN ifcs[B] = {sigM, sigN}
           /\ \A T \in DOMAIN typs :
                Implements(B, T) => {sigM, sigN} \subseteq DOMAIN typs[T]

\* J = {I, "N()"} and I = {"M()"}: T3 has both and is recorded under J, T1
\* has only "M()" and is not
C6_Witness ==
    /\ TypesetsDone
    /\ DOMAIN in0[ifcI] = {sigM}
    /\ DOMAIN in0[ifcJ] = {ifcI, sigN}
    /\ Implements(ifcJ, typ3)
    /\ ~Implements(ifcJ, typ1)

\* the recorded interfaces an interface of tree t embeds directly
EmbeddedIn(t, ifc) == {m \in DOMAIN t[ifc] : ~Contains(m, LPAREN)} \cap DOMAIN t

\* the interfaces reachable from a set of interfaces in at most n embeddings
RECURSIVE EmbeddedWithin(_, _, _)
EmbeddedWithin(t, from, n) ==
    IF n = 0 THEN {}
    ELSE LET next == UNION {EmbeddedIn(t, i) : i \in from}
         IN  next \cup EmbeddedWithin(t, next, n - 1)

\* no interface of t embeds itself, directly or through others (what the Go
\* type checker accepts)
Acyclic(t) ==
    \A ifc \in DOMAIN t : ifc \notin EmbeddedWithin(t, {ifc}, Cardinality(DOMAIN t))

\* every embedded name of t is an interface recorded in t
Closed(t) ==
    \A ifc \in DOMAIN t : \A m \in DOMAIN t[ifc] : Contains(m, LPAREN) \/ m \in DOMAIN t

\* C7: after the first pass of typesets no member set holds an embedded
\* interface name (a member without "("): every chain of embeddings (K embeds
\* J embeds I) is replaced by method signatures, whatever the iteration order.
C7_NoEmbeddedNameLeft ==
    (TsExpanded /\ Acyclic(in0) /\ Closed(in0)) =>
        \A I \in DOMAIN ifcs : \A m \in DOMAIN ifcs[I] : Contains(m, LPAREN)

(***************************************************************************)
(* Formatting and paths used by the graph builder (nodegraph.go).          *)
(***************************************************************************)

\* path.Clean on a slash-separated path: empty and "." elements are dropped,
\* an element ".." removes the element before it, the empty result is ".".
RECURSIVE cleanElems(_, _)
cleanElems(elems, acc) ==
    IF elems = <<>> THEN acc
    ELSE LET e == elems[1]
         IN  IF e = <<>> \/ e = <<46>> THEN cleanElems(Tail(elems), acc)
             ELSE IF e = <<46, 46>> /\ acc # <<>> /\ acc[Len(acc)] # <<46, 46>>
             THEN cleanElems(Tail(elems), SubSeq(acc, 1, Len(acc) - 1))
             ELSE cleanElems(Tail(elems), Append(acc, e))

cleaned(rooted, body) ==
    IF rooted THEN <<47>> \o body
    ELSE IF body = <<>> THEN <<46>> ELSE body

cleanRooted(rooted, elems) ==
    cleaned(rooted, Join(IF rooted THEN SelectSeq(elems, LAMBDA e : e # <<46, 46>>)
                         ELSE elems, <<47>>))

Clean(p) == cleanRooted(p # <<>> /\ p[1] = 47, cleanElems(Split(p, 47), <<>>))

\* position of the last "/" of a path, 0 when it has none
RECURSIVE LastSlash(_)
LastSlash(p) ==
    IF p = <<>> THEN 0
    ELSE IF p[Len(p)] = 47 THEN Len(p)
    ELSE LastSlash(SubSeq(p, 1, Len(p) - 1))

\* path.Dir: all but the last element of the path, cleaned
Dir(p) == Clean(SubSeq(p, 1, LastSlash(p)))

\* path.Base: the last element of the path; "." for the empty path
Base(p) ==
    LET q == TrimRight(p, {47})
    IN  IF p = <<>> THEN <<46>>
        ELSE IF q = <<>> THEN <<47>>
        ELSE SubSeq(q, LastSlash(q) + 1, Len(q))

\* path.Join(a, b): the non-empty arguments joined by "/" and cleaned
PathJoin(a, b) ==
    IF a = <<>> /\ b = <<>> THEN <<>>
    ELSE Clean(IF a = <<>> THEN b ELSE IF b = <<>> THEN a ELSE a \o <<47>> \o b)

\* a hexadecimal digit as strconv.Quote writes it
HexDigit(n) == IF n < 10 THEN 48 + n ELSE 87 + n

\* the %q verb (strconv.Quote) on ASCII text: the text in double quotes,
\* with the quote, the backslash and the control characters escaped
QuoteByte(b) ==
    IF b = 34 THEN <<92, 34>>
    ELSE IF b = 92 THEN <<92, 92>>
    ELSE IF b = 7 THEN <<92, 97>>
    ELSE IF b = 8 THEN <<92, 98>>
    ELSE IF b = 12 THEN <<92, 102>>
    ELSE IF b = 10 THEN <<92, 110>>
    ELSE IF b = 13 THEN <<92, 114>>
    ELSE IF b = 9 THEN <<92, 116>>
    ELSE IF b = 11 THEN <<92, 118>>
    ELSE IF b < 32 \/ b = 127 THEN <<92, 120, HexDigit(b \div 16), HexDigit(b % 16)>>
    ELSE <<b>>

RECURSIVE QuoteBody(_)
QuoteBody(s) == IF s = <<>> THEN <<>> ELSE QuoteByte(s[1]) \o QuoteBody(Tail(s))

Quote(s) == <<34>> \o QuoteBody(s) \o <<34>>

\* colors on HSV spectrum that work well in light and dark mode
colors ==
    << <<48, 46, 48, 32, 48, 46, 53, 32, 48, 46, 56, 48>>,  \* "0.0 0.5 0.80"
       <<48, 46, 49, 32, 48, 46, 53, 32, 48, 46, 55, 53>>,  \* "0.1 0.5 0.75"
       <<48, 46, 50, 32, 48, 46, 53, 32, 48, 46, 55, 32>>,  \* "0.2 0.5 0.7 "
       <<48, 46, 51, 32, 48, 46, 53, 32, 48, 46, 55, 53>>,  \* "0.3 0.5 0.75"
       <<48, 46, 52, 32, 48, 46, 53, 32, 48, 46, 55, 53>>,  \* "0.4 0.5 0.75"
       <<48, 46, 53, 32, 48, 46, 53, 32, 48, 46, 55, 53>>,  \* "0.5 0.5 0.75"
       <<48, 46, 54, 32, 48, 46, 53, 32, 48, 46, 57, 32>>,  \* "0.6 0.5 0.9 "
       <<48, 46, 55, 32, 48, 46, 53, 32, 49, 46, 48>>,      \* "0.7 0.5 1.0"
       <<48, 46, 56, 32, 48, 46, 53, 32, 48, 46, 57>>,      \* "0.8 0.5 0.9"
       <<48, 46, 57, 32, 48, 46, 53, 32, 48, 46, 56, 53>> >>  \* "0.9 0.5 0.85"

\* The 64-bit FNV-1 hash of hash/fnv.New64, held as four 16-bit limbs,
\* lowest first, so that the arithmetic modulo 2^64 stays within small
\* integers.  The offset basis is 0xcbf29ce484222325.
fnvOffset == <<8997, 33826, 40164, 52210>>

\* the limbs of a product from its columns t1..t4, each with the carry of
\* the column before it
fnvLimbs(t1, t2, t3, t4) == <<t1 % 65536, t2 % 65536, t3 % 65536, t4 % 65536>>
fnvCarry4(h, t1, t2, t3) == fnvLimbs(t1, t2, t3, h[4] * 435 + h[2] * 256 + (t3 \div 65536))
fnvCarry3(h, t1, t2) == fnvCarry4(h, t1, t2, h[3] * 435 + h[1] * 256 + (t2 \div 65536))
fnvCarry2(h, t1) == fnvCarry3(h, t1, h[2] * 435 + (t1 \div 65536))

\* h * 0x100000001b3 modulo 2^64: the prime is 2^40 + 0x1b3, so limb k of
\* the product collects h[k] * 0x1b3, h[k-2] * 2^8 and the carry of limb k-1
fnvMulPrime(h) == fnvCarry2(h, h[1] * 435)

\* bitwise exclusive or of two bytes
Xor8(a, b) ==
      ((a + b) % 2)
    + 2   * (((a \div 2)   + (b \div 2))   % 2)
    + 4   * (((a \div 4)   + (b \div 4))   % 2)
    + 8   * (((a \div 8)   + (b \div 8))   % 2)
    + 16  * (((a \div 16)  + (b \div 16))  % 2)
    + 32  * (((a \div 32)  + (b \div 32))  % 2)
    + 64  * (((a \div 64)  + (b \div 64))  % 2)
    + 128 * (((a \div 128) + (b \div 128)) % 2)

\* hash ^= c on the lowest eight bits
fnvXor(p, c) == <<256 * (p[1] \div 256) + Xor8(p[1] % 256, c), p[2], p[3], p[4]>>

\* hash.Write from byte i of s on: for every byte, multiply by the prime,
\* then xor the byte in
RECURSIVE fnvWrite(_, _, _)
fnvWrite(h, s, i) ==
    IF i > Len(s) THEN h
    ELSE fnvWrite(fnvXor(fnvMulPrime(h), s[i]), s, i + 1)

\* the 64-bit value of h modulo n
fnvMod(h, n) ==
    ((((((h[4] % n) * 65536 + h[3]) % n) * 65536 + h[2]) % n) * 65536 + h[1]) % n

\* color defines the color for graphviz nodes and edges
color(s) == colors[fnvMod(fnvWrite(fnvOffset, s, 1), Len(colors)) + 1]

\* subgtmpl is the layout for a graphviz subgraph statement; c is the byte
\* the statement sorts by
subgtmpl(c, name, bgcolor, label, attrs) ==
    <<c>> \o <<10, 115, 117, 98, 103, 114, 97, 112, 104, 32>>      \* "\nsubgraph "
    \o Quote(name)
    \o <<32, 123, 32, 99, 108, 117, 115, 116, 101, 114, 61, 116, 114, 117, 101,
         32, 102, 111, 110, 116, 99, 111, 108, 111, 114, 61, 98, 108, 97, 99,
         107, 32, 98, 103, 99, 111, 108, 111, 114, 61>>
                          \* " { cluster=true fontcolor=black bgcolor="
    \o Quote(bgcolor)
    \o <<32, 108, 97, 98, 101, 108, 61>>                           \* " label="
    \o Quote(label)
    \o <<32>> \o attrs

\* nodetmpl is the layout for a graphviz node statement
nodetmpl(name, fillcolor, label) ==
    <<32, 10>> \o Quote(name)                                      \* " \n"
    \o <<32, 91, 102, 105, 108, 108, 99, 111, 108, 111, 114, 61>>  \* " [fillcolor="
    \o Quote(fillcolor)
    \o <<32, 108, 97, 98, 101, 108, 61>>                           \* " label="
    \o Quote(label)
    \o <<32, 116, 111, 111, 108, 116, 105, 112, 61, 34>>           \* " tooltip=\""

\* the key of an edge: the layout nodegraph formats an edge statement with
edgetmpl(dnode, rnode, ports, dir, clr) ==
    <<10>> \o Quote(dnode) \o <<32, 45, 62, 32>> \o Quote(rnode)   \* " -> "
    \o <<32, 91>> \o ports                                         \* " ["
    \o <<32, 100, 105, 114, 61>> \o dir                            \* " dir="
    \o <<32, 99, 111, 108, 111, 114, 61>> \o Quote(clr)            \* " color="
    \o <<32, 116, 111, 111, 108, 116, 105, 112, 61, 34>>           \* " tooltip=\""
    \o dnode \o <<92, 110>> \o rnode \o <<34, 93>>                 \* "\\n", "\"]"

\* the sentinel keys that close a subgraph and a node's tooltip
closeSubgraphEarly == <<31, 10, 125>>
\* "\x7F\n}"
closeSubgraph == <<127, 10, 125>>
\* "\x7F\"]"
closeTooltip == <<127, 34, 93>>

\* the top-level subgraphs
\* "std"
standard == <<115, 116, 100>>
\* "import"
imports == <<105, 109, 112, 111, 114, 116>>
\* "vendor"
vendor == <<118, 101, 110, 100, 111, 114>>
\* "lightgrey"
lightgrey == <<108, 105, 103, 104, 116, 103, 114, 101, 121>>
\* "rank=same"
rankSame == <<114, 97, 110, 107, 61, 115, 97, 109, 101>>
\* "rank=source"
rankSource == <<114, 97, 110, 107, 61, 115, 111, 117, 114, 99, 101>>
\* "rank=sink"
rankSink == <<114, 97, 110, 107, 61, 115, 105, 110, 107>>

\* dirstd is the location of the Go standard packages source; "/s" stands
\* for GOROOT/src
dirstd == <<47, 115>>
\* dirimps is the location of the source for imported Go packages; "/i"
\* stands for GOPATH/pkg/mod
dirimps == <<47, 105>>

\* graphmap as the package initialisation leaves it
graphmap0 ==
    (standard :> subgtmpl(1, standard, lightgrey,
        <<71, 111, 32, 83, 116, 97, 110, 100, 97, 114, 100, 32, 80, 97, 99,
          107, 97, 103, 101, 115>>, rankSource))       \* "Go Standard Packages"
    @@ (imports :> subgtmpl(3, imports, lightgrey,
        <<73, 109, 112, 111, 114, 116, 101, 100, 32, 80, 97, 99, 107, 97, 103,
          101, 115>>, rankSink))                       \* "Imported Packages"
    @@ (vendor :> subgtmpl(4, vendor, lightgrey,
        <<86, 101, 110, 100, 111, 114, 101, 100, 32, 80, 97, 99, 107, 97, 103,
          101, 115>>, rankSink))                       \* "Vendored Packages"

\* dirmap as the package initialisation leaves it
dirmap0 == (dirstd :> standard) @@ (dirimps :> imports)

(***************************************************************************)
(* node (nodegraph.go).  Go maps are references: a tree handle returned by *)
(* node() denotes the same map after later calls moved it.  The trees of   *)
(* the graph are therefore kept in a heap, a sequence of maps from keys to *)
(* the heap index of the child map.  The index 0 stands for an empty map   *)
(* tree{} that is stored and never looked up again (the value under a      *)
(* sentinel key or a tooltip entry).  Each step of node() is an operator   *)
(* whose parameters are the values the steps before it computed.           *)
(***************************************************************************)

\* nodes contains the graphviz layout of subgraphs and nodes: its heap index
nodes == 1

\* the heap with a new map m; the new map's index is Len(h) + 1
alloc(h, m) == Append(h, m)

\* tr[k] = v on the map at index id
put(h, id, k, v) ==
    [h EXCEPT ![id] = [x \in (DOMAIN h[id]) \cup {k} |-> IF x = k THEN v ELSE h[id][x]]]

\* delete(tr, k) on the map at index id
del(h, id, k) ==
    [h EXCEPT ![id] = [x \in (DOMAIN h[id]) \ {k} |-> h[id][x]]]

\* the tree value a heap index denotes
RECURSIVE TreeOf(_, _)
TreeOf(h, id) ==
    IF id = 0 THEN EmptyTree
    ELSE [k \in DOMAIN h[id] |-> TreeOf(h, h[id][k])]

\* the roots of dirmap that node(abs) can resolve abs with: the range over
\* dirmap returns at the first root, in iteration order, that abs lies on and
\* that is not the imports directory while abs lies in the module
Candidates(dm, mod, abs) ==
    {pth \in DOMAIN dm :
        /\ ~subdir(pth, abs).err
        /\ ~(~subdir(mod, abs).err /\ pth = dirimps)}

\* tg + ": " + pkg
label(tg, pkg) == tg \o <<58, 32>> \o pkg

\* cache dot subgraph statement: subgmap after the lookup of name
cacheSubgraph(sm, name, pkg) ==
    IF name \in DOMAIN sm THEN sm
    ELSE (name :> subgtmpl(0, pkg, color(pkg), pkg, rankSame)) @@ sm

\* add dot subgraph statement sg to the map at index t
addSubgraph(h, t, sg) ==
    IF sg \in DOMAIN h[t] THEN h
    ELSE put(alloc(h, (closeSubgraph :> 0)), t, sg, Len(h) + 1)

\* the subgraph sg is given a copy of the package node nd
moveNodeCopied(h, t, sg, nd) ==
    IF nd \in DOMAIN h[t]
    THEN put(del(alloc(h, h[h[t][nd]]), t, nd), h[t][sg], nd, Len(h) + 1)
    ELSE h

\* if previously added package node nd is parent of this node, move it into
\* the subgraph sg
moveNode(h, t, sg, nd) ==
    IF nd \in DOMAIN h[t] THEN put(del(h, t, nd), h[t][sg], nd, h[t][nd])
    ELSE h

\* tr = tr[sg]
enter(h, sm, nm, t, sg, pkg) ==
    [st |-> [heap |-> h, subgmap |-> sm, nodemap |-> nm], tr |-> h[t][sg], pkg |-> pkg]

\* one iteration of the loop of node() over the directories above the
\* package, with the subgraph statement cached in sm
nodeDirCached(h, sm, nm, t, name, pkg) ==
    enter(moveNode(addSubgraph(h, t, sm[name]), t, sm[name],
                   nodetmpl(name, color(name), pkg)),
          sm, nm, t, sm[name], pkg)

nodeDirNamed(st, t, name, pkg) ==
    nodeDirCached(st.heap, cacheSubgraph(st.subgmap, name, pkg), st.nodemap, t, name, pkg)

\* pkg = path.Join(pkg, dir); node := tg + ": " + pkg
nodeDir(st, t, tg, pkg) == nodeDirNamed(st, t, label(tg, pkg), pkg)

\* the loop of node() over the directories above the package; w holds the
\* heap and the caches (st), the index of the current subgraph's map (tr)
\* and the path joined so far (pkg)
RECURSIVE nodeDirs(_, _, _)
nodeDirs(w, tg, dirs) ==
    IF dirs = <<>> \/ dirs[1] = <<46>> THEN w
    ELSE nodeDirs(nodeDir(w.st, w.tr, tg, PathJoin(w.pkg, dirs[1])), tg, Tail(dirs))

\* if nested node for this node already exists, place this node in its
\* subgraph: the heap and the index of the map the node goes to
placed(h, t) == [heap |-> h, tr |-> t]
enterNested(h, t, sg) == placed(h, h[t][sg])
\* the node goes beside the subgraph of its own name
placeBeside(h, sm, t, name) == placed(h, t)

place(h, sm, t, name) ==
    IF name \in DOMAIN sm THEN enterNested(addSubgraph(h, t, sm[name]), t, sm[name])
    ELSE placed(h, t)

\* cache dot node statement: nodemap after the lookup of name
cacheNode(nm, name, pkg) ==
    IF name \in DOMAIN nm THEN nm
    ELSE (name :> nodetmpl(name, color(name), pkg)) @@ nm

\* add dot node statement nd to the map at index t
addNode(h, t, nd) ==
    IF nd \in DOMAIN h[t] THEN h
    ELSE put(alloc(h, (closeTooltip :> 0)), t, nd, Len(h) + 1)

\* return order, node, tr  (tr = tr[nd])
nodeReturn(h, sm, nm, t, order, name) ==
    [order |-> order, node |-> name, tree |-> h[t][nm[name]],
     st |-> [heap |-> h, subgmap |-> sm, nodemap |-> nm]]

nodePlaced(p, sm, nm, order, name) ==
    nodeReturn(addNode(p.heap, p.tr, nm[name]), sm, nm, p.tr, order, name)

\* the part of node() after the loop, for the node named name
nodeNamed(w, order, name, pkg) ==
    nodePlaced(place(w.st.heap, w.st.subgmap, w.tr, name), w.st.subgmap,
               cacheNode(w.st.nodemap, name, pkg), order, name)

\* if pkg = path.Join(pkg, base); pkg == "." { pkg = tg }
packageOf(pkg, tg) == IF pkg = <<46>> THEN tg ELSE pkg

nodeLabelled(w, order, tg, pkg) == nodeNamed(w, order, label(tg, pkg), pkg)

\* the part of node() after the loop: base is joined to the path of the loop
nodeBase(w, order, tg, base) ==
    nodeLabelled(w, order, tg, packageOf(PathJoin(w.pkg, base), tg))

\* node() for the package pkg of the top-level subgraph tg, whose statement
\* is gr: order := gr[0]; tr := nodes[gr]; the loop; the rest
nodeIn(st, gr, tg, pkg) ==
    nodeBase(nodeDirs([st |-> st, tr |-> st.heap[nodes][gr], pkg |-> <<>>],
                      tg, Split(Dir(pkg), 47)),
             gr[1], tg, Base(pkg))

\* gr := graphmap[tg]
nodeTop(st, gm, tg, pkg) == nodeIn(st, gm[tg], tg, pkg)

\* treat vendor directory as vendored package path
nodeVendor(st, gm, cut, tg, pkg) ==
    nodeTop(st, gm, IF cut[3] THEN vendor ELSE tg, IF cut[3] THEN cut[2] ELSE pkg)

\* node(abs) when the range over dirmap resolves abs with the root pth, whose
\* top-level subgraph is tg
nodeAt(st, gm, abs, pth, tg) ==
    nodeVendor(st, gm, Cut(abs, <<47>> \o vendor \o <<47>>), tg, subdir(pth, abs).rel)

\* node(abs): pth is the root the range over dirmap stops at, None when abs
\* lies on no root and node returns 0, "", tree{}
node(st, dm, gm, abs, pth) ==
    IF pth = None
    THEN [order |-> 0, node |-> <<>>, tree |-> Len(st.heap) + 1,
          st |-> [heap |-> alloc(st.heap, EmptyTree), subgmap |-> st.subgmap,
                  nodemap |-> st.nodemap]]
    ELSE nodeAt(st, gm, abs, pth, dm[pth])

(***************************************************************************)
(* nodegraph (nodegraph.go): produces the package connections node graph.  *)
(***************************************************************************)

\* the top-level subgraph of the module
module == gomod

\* m[k] = v on a map held as a value
mapPut(m, k, v) == [x \in (DOMAIN m) \cup {k} |-> IF x = k THEN v ELSE m[x]]

\* the heap, subgmap and nodemap as node() reads and writes them
GraphState == [heap |-> heap, subgmap |-> subgmap, nodemap |-> nodemap]

\* the roots the range over dirmap in node(abs) can stop at; None when it
\* stops at none
orNone(c) == IF c = {} THEN {None} ELSE c
Resolutions(abs) == orNone(Candidates(dirmap, dirmod, abs))

\* "tailport=e headport=w"
portsEW ==
    <<116, 97, 105, 108, 112, 111, 114, 116, 61, 101, 32, 104, 101, 97, 100,
      112, 111, 114, 116, 61, 119>>
\* "tailport=w headport=w"
portsWW ==
    <<116, 97, 105, 108, 112, 111, 114, 116, 61, 119, 32, 104, 101, 97, 100,
      112, 111, 114, 116, 61, 119>>
\* "tailport=e headport=e"
portsEE ==
    <<116, 97, 105, 108, 112, 111, 114, 116, 61, 101, 32, 104, 101, 97, 100,
      112, 111, 114, 116, 61, 101>>
\* "back"
dirBack == <<98, 97, 99, 107>>
\* "forward"
dirForward == <<102, 111, 114, 119, 97, 114, 100>>

\* ignore intra-node calls, and pairs neither of which is in the module
skipped(r, rnode, d, dnode) ==
    dnode = rnode \/ (dirmod # dirstd /\ d # 2 /\ r # 2)

\* the edge between dnode and rnode as nodegraph formats it: the values of
\* rnode and dnode it is left with, and its key in edges
edge(rnode, dnode, ports, dir) ==
    [rnode |-> rnode, dnode |-> dnode, dir |-> dir, ports |-> ports,
     key |-> edgetmpl(dnode, rnode, ports, dir,
                      color(rnode) \o <<59, 48, 46, 53, 58>> \o color(dnode))]  \* ";0.5:"

\* the ports of an edge with the intra-cluster cases left out
portsOfPlain(r, d) == portsEW

\* 'e', 'w' ONLY way to ensure edge on correct side; left side for
\* standard's intra-cluster references, right side for others'
portsOf(r, d) ==
    IF d = 1 /\ r = 1 THEN portsWW
    ELSE IF d = r THEN portsEE
    ELSE portsEW

\* an edge statement that names the referencer's node at both ends
edgeOfReferencer(r, rnode, d, dnode) == edge(rnode, rnode, portsOf(r, d), dirBack)

\* the edge of a pair that is not skipped: when the referencer sorts before
\* the target the edge is forward and rnode and dnode are exchanged
edgeOf(r, rnode, d, dnode) ==
    IF r < d \/ (r = d /\ StrLess(rnode, dnode))
    THEN edge(dnode, rnode, portsOf(r, d), dirForward)
    ELSE edge(rnode, dnode, portsOf(r, d), dirBack)

\* the tooltip entries of a pair: both labels under both leaves
tooltipKey(name) == <<32>> \o name \o <<92, 110>>                  \* " " + name + "\\n"
tooltipsAt(h, rtree, dtree, kr, kd) ==
    put(put(put(put(h, rtree, kr, 0), rtree, kd, 0), dtree, kr, 0), dtree, kd, 0)
tooltips(h, rtree, rnode, dtree, dnode) ==
    tooltipsAt(h, rtree, dtree, tooltipKey(rnode), tooltipKey(dnode))

\* nodegraph up to its range loops: the module's root and top-level subgraph
NgBegin ==
    /\ phase = "nodegraph"
    /\ IF dirmod # dirstd
       THEN /\ dirmap' = mapPut(dirmap, dirmod, module)
            /\ graphmap' = mapPut(graphmap, module,
                                  subgtmpl(2, module, lightgrey, gomod, rankSame))
            /\ heap' = put(alloc(heap, (closeSubgraph :> 0)), nodes,
                           graphmap'[module], Len(heap) + 1)
       ELSE UNCHANGED <<dirmap, graphmap, heap>>
    /\ loop' = [keys |-> DOMAIN refs, key |-> None, rabss |-> {}, rabs |-> None,
                dabss |-> {}, r |-> 0, rnode |-> <<>>, rtree |-> 0, rnode0 |-> <<>>]
    /\ phase' = "loop"
    /\ UNCHANGED <<callVars, walkVars, treeVars, symVars, pend, cur, must, may, in0>>
    /\ UNCHANGED <<gomod, subgmap, nodemap, edges, pairs, graph, prev>>

\* r, rnode, rtree := node(rabs), n being what node(rabs) returns
NgReferencer(key, rabs, n) ==
    /\ heap' = n.st.heap
    /\ subgmap' = n.st.subgmap
    /\ nodemap' = n.st.nodemap
    /\ loop' = [keys   |-> loop.keys \ {key},
                key    |-> key,
                rabss  |-> (IF loop.rabss = {} THEN DOMAIN refs[key] ELSE loop.rabss) \ {rabs},
                rabs   |-> rabs,
                dabss  |-> DOMAIN refs[key][rabs],
                r      |-> n.order,
                rnode  |-> n.node,
                rtree  |-> n.tree,
                rnode0 |-> n.node]

\* for rabs, defs := range refs: the loops reach referencer rabs of the
\* references entry key, and node(rabs) resolves it with a root pth
NgRabs(key, rabs) ==
    /\ phase = "loop"
    /\ loop.dabss = {}
    /\ \/ loop.rabss # {} /\ key = loop.key /\ rabs \in loop.rabss
       \/ loop.rabss = {} /\ key \in loop.keys /\ rabs \in DOMAIN refs[key]
    /\ \E pth \in Resolutions(rabs) :
            NgReferencer(key, rabs, node(GraphState, dirmap, graphmap, rabs, pth))
    /\ UNCHANGED <<callVars, walkVars, treeVars, symVars, ctlVars>>
    /\ UNCHANGED <<gomod, dirmap, graphmap, edges, pairs, graph, prev>>

\* the body of the inner loop for a pair that is not skipped, e being its edge
NgEdge(dabs, n, e) ==
    /\ heap' = tooltips(n.st.heap, loop.rtree, loop.rnode, n.tree, n.node)
    /\ edges' = mapPut(edges, e.key, EmptyTree)
    /\ loop' = [loop EXCEPT !.dabss = @ \ {dabs}, !.rnode = e.rnode]

\* what is recorded of a pair that is skipped: no edge
noEdge == [rnode |-> <<>>, dnode |-> <<>>, dir |-> <<>>, ports |-> <<>>, key |-> <<>>]

\* the body of the inner loop, n being what node(dabs) returns
NgPair(dabs, n) ==
    /\ subgmap' = n.st.subgmap
    /\ nodemap' = n.st.nodemap
    /\ IF skipped(loop.r, loop.rnode, n.order, n.node)
       THEN /\ heap' = n.st.heap
            /\ UNCHANGED edges
            /\ loop' = [loop EXCEPT !.dabss = @ \ {dabs}]
       ELSE NgEdge(dabs, n, edgeOf(loop.r, loop.rnode, n.order, n.node))
    /\ pairs' = pairs \cup {[rabs |-> loop.rabs, dabs |-> dabs,
                             r |-> loop.r, rnode |-> loop.rnode0,
                             d |-> n.order, dnode |-> n.node,
                             tipped |-> heap' # n.st.heap,
                             edge |-> IF skipped(loop.r, loop.rnode, n.order, n.node)
                                      THEN noEdge
                                      ELSE edgeOf(loop.r, loop.rnode, n.order, n.node)]}

\* for dabs := range defs: the inner loop reaches target dabs, and node(dabs)
\* resolves it with a root pth
NgDabs(dabs) ==
    /\ phase = "loop"
    /\ dabs \in loop.dabss
    /\ \E pth \in Resolutions(dabs) :
            NgPair(dabs, node(GraphState, dirmap, graphmap, dabs, pth))
    /\ UNCHANGED <<callVars, walkVars, treeVars, symVars, ctlVars>>
    /\ UNCHANGED <<gomod, dirmap, graphmap, graph, prev>>

\* the range loops are over
LoopDone ==
    /\ phase = "loop"
    /\ loop.dabss = {} /\ loop.rabss = {}
    /\ \A k \in loop.keys : DOMAIN refs[k] = {}

\* the text of a traversal: what fn appends for every visited key
RECURSIVE textOf(_, _)
textOf(visits, skipFirst) ==
    IF visits = <<>> THEN <<>>
    ELSE (IF skipFirst THEN Tail(visits[1][2]) ELSE visits[1][2])
         \o textOf(Tail(visits), skipFirst)

\* the head of the graph: the digraph statement, its label with the time now
\* formatted "Mon Jan 02 2006 at 03:04:05PM MST", and the graph attributes
header(mod, now) ==
    <<100, 105, 103, 114, 97, 112, 104, 32, 34, 77, 111, 100, 117, 108, 101,
      32, 92, 34>>                                    \* "digraph \"Module \\\""
    \o mod
    \o <<92, 34, 32, 80, 97, 99, 107, 97, 103, 101, 115, 32, 78, 111, 100, 101,
         103, 114, 97, 112, 104, 34, 32, 123, 10, 32, 32, 108, 97, 98, 101, 108,
         61, 34, 92, 71, 32>>       \* "\\\" Packages Nodegraph\" {\n  label=\"\\G "
    \o now
    \o <<34, 10, 32, 32, 108, 97, 98, 101, 108, 108, 111, 99, 61, 116, 10, 32,
         32, 102, 111, 110, 116, 110, 97, 109, 101, 61, 34, 115, 97, 110, 115,
         45, 115, 101, 114, 105, 102, 34, 10, 32, 32, 102, 111, 110, 116, 115,
         105, 122, 101, 61, 49, 52, 46, 48, 10, 32, 32, 102, 111, 110, 116, 99,
         111, 108, 111, 114, 61, 108, 105, 103, 104, 116, 103, 114, 101, 121,
         10, 32, 32, 98, 103, 99, 111, 108, 111, 114, 61, 98, 108, 97, 99, 107,
         10, 32, 32, 114, 97, 110, 107, 100, 105, 114, 61, 76, 82, 10, 32, 32,
         110, 101, 119, 114, 97, 110, 107, 61, 116, 114, 117, 101, 10, 32, 32,
         99, 111, 109, 112, 111, 117, 110, 100, 61, 116, 114, 117, 101, 10, 32,
         32, 111, 114, 100, 101, 114, 105, 110, 103, 61, 111, 117, 116, 10, 32,
         32, 110, 111, 100, 101, 115, 101, 112, 61, 48, 46, 48, 53, 10, 32, 32,
         114, 97, 110, 107, 115, 101, 112, 61, 56, 10, 32, 32, 110, 111, 100,
         101, 32, 91, 115, 104, 97, 112, 101, 61, 114, 101, 99, 116, 32, 115,
         116, 121, 108, 101, 61, 34, 102, 105, 108, 108, 101, 100, 34, 32, 104,
         101, 105, 103, 104, 116, 61, 48, 46, 51, 32, 119, 105, 100, 116, 104,
         61, 49, 46, 53, 32, 109, 97, 114, 103, 105, 110, 61, 34, 48, 46, 50,
         44, 48, 46, 48, 34, 32, 102, 111, 110, 116, 110, 97, 109, 101, 61, 34,
         115, 97, 110, 115, 45, 115, 101, 114, 105, 102, 34, 32, 102, 111, 110,
         116, 115, 105, 122, 101, 61, 49, 49, 46, 48, 93, 10, 32, 32, 101, 100,
         103, 101, 32, 91, 112, 101, 110, 119, 105, 100, 116, 104, 61, 50, 46,
         48, 93>>      \* "\"\n  labelloc=t\n ... \n  edge [penwidth=2.0]"

\* the text nodegraph returns for the trees as they are
rendering(now) ==
    header(gomod, now)
    \o textOf(traverse(TreeOf(heap, nodes), 0), TRUE)
    \o textOf(traverse(edges, 0), FALSE)
    \o <<10, 125, 10>>                                              \* "\n}\n"

\* the readings of time.Now() a run can get, formatted
\* "Sun Nov 01 2026 at 09:00:00AM UTC"
clock1 ==
    <<83, 117, 110, 32, 78, 111, 118, 32, 48, 49, 32, 50, 48, 50, 54, 32, 97,
      116, 32, 48, 57, 58, 48, 48, 58, 48, 48, 65, 77, 32, 85, 84, 67>>
\* "Sun Nov 01 2026 at 09:00:01AM UTC"
clock2 ==
    <<83, 117, 110, 32, 78, 111, 118, 32, 48, 49, 32, 50, 48, 50, 54, 32, 97,
      116, 32, 48, 57, 58, 48, 48, 58, 48, 49, 65, 77, 32, 85, 84, 67>>
Clock == {clock1, clock2}

\* the rest of nodegraph: the graph's text is put together and returned
NgRender(now) ==
    /\ LoopDone
    /\ graph' = rendering(now)
    /\ phase' = "rendered"
    /\ UNCHANGED <<callVars, walkVars, treeVars, symVars, pend, cur, must, may, in0>>
    /\ UNCHANGED <<gomod, dirmap, graphmap, subgmap, nodemap, heap, edges, loop, pairs, prev>>

(***************************************************************************)
(* The graph builder under test: nodegraph runs on a References tree as    *)
(* defs4refs leaves it (every referencer lies in the module), for a module *)
(* beside the roots, the standard library itself, a module in the import   *)
(* cache and a module beneath the standard library's root.                 *)
(***************************************************************************)
\* "/m/a/b"
dMab == <<47, 109, 47, 97, 47, 98>>
\* "/m/vendor/v"
dMv == <<47, 109, 47, 118, 101, 110, 100, 111, 114, 47, 118>>
\* "/i/y"
dIy == <<47, 105, 47, 121>>
\* "/z"
dZ == <<47, 122>>
\* "/s/f/g"
dSfg == <<47, 115, 47, 102, 47, 103>>
\* "/i/m"
dirIm == <<47, 105, 47, 109>>
\* "/i/m/a"
dIma == <<47, 105, 47, 109, 47, 97>>
\* "/s/c"
dirSc == <<47, 115, 47, 99>>
\* "/s/c/a"
dSca == <<47, 115, 47, 99, 47, 97>>
\* "m"
modM == <<109>>
\* "c"
modC == <<99>>
\* the module and the directories a run can name: the module's directory and
\* import path, the referencing directories and the target directories
Worlds ==
    { [mod |-> dirM, gomod |-> modM,
       rdirs |-> {dirM, dMa},
       ddirs |-> {dMa, dMb, dMab, dMv, dSf, dIx, dIy, dZ}],
      [mod |-> dirstd, gomod |-> standard,
       rdirs |-> {dSf, dSfg},
       ddirs |-> {dSf, dSfg, dIx}],
      [mod |-> dirIm, gomod |-> modM,
       rdirs |-> {dirIm, dIma},
       ddirs |-> {dIma, dIx, dSf}],
      [mod |-> dirSc, gomod |-> modC,
       rdirs |-> {dirSc, dSca},
       ddirs |-> {dSca, dSf}] }

\* number of (symbol, referencer, target) entries of a References tree
MaxPairs == 2

\* the References trees of a world: up to MaxPairs entries, each a symbol, a
\* referencer and a target, or None for a referencer left without target
Entries(w) == RefKeys \X w.rdirs \X (w.ddirs \cup {None})

\* the subsets of S with at most n elements
RECURSIVE SubsetsUpTo(_, _)
SubsetsUpTo(S, n) ==
    IF n = 0 THEN {{}}
    ELSE LET smaller == SubsetsUpTo(S, n - 1)
         IN  smaller \cup {T \cup {x} : T \in smaller, x \in S}

refsOf(T) ==
    [k \in {t[1] : t \in T} |->
        [ra \in {t[2] : t \in {u \in T : u[1] = k}} |->
            SetTree({t[3] : t \in {u \in T : u[1] = k /\ u[2] = ra /\ u[3] # None}})]]

\* the package-level variables of nodegraph.go as initialisation leaves them
GraphStart ==
    /\ dirmap = dirmap0
    /\ graphmap = graphmap0
    /\ subgmap = <<>>
    /\ nodemap = <<>>
    /\ heap = << (graphmap0[standard] :> 2) @@ (graphmap0[imports] :> 3)
                   @@ (graphmap0[vendor] :> 4),
                 (closeSubgraph :> 0), (closeSubgraph :> 0), (closeSubgraph :> 0) >>
    /\ edges = EmptyTree
    /\ loop = None
    /\ pairs = {}
    /\ graph = None

InitGraph ==
    /\ IdleTree
    /\ IdleWalk
    /\ IdleCalls
    /\ IdleCtl
    /\ imps = EmptyTree /\ ifcs = EmptyTree /\ typs = EmptyTree
    /\ vals = EmptyTree /\ fncs = EmptyTree /\ defs = EmptyTree
    /\ sets = EmptyTree
    /\ \E w \in Worlds :
          /\ dirmod = w.mod
          /\ gomod = w.gomod
          /\ \E T \in SubsetsUpTo(Entries(w), MaxPairs) \ {{}} : refs = refsOf(T)
    /\ GraphStart
    /\ prev = None
    /\ phase = "nodegraph"

\* every directory a run can name
GraphDirs == UNION {w.rdirs \cup w.ddirs : w \in Worlds}

NextGraph ==
    \/ NgBegin
    \/ \E key \in RefKeys, rabs \in GraphDirs : NgRabs(key, rabs)
    \/ \E dabs \in GraphDirs : NgDabs(dabs)
    \/ \E now \in Clock : NgRender(now)

SpecGraph == InitGraph /\ [][NextGraph]_vars

\* nodegraph has run up to its range loops, is in them, or has returned
InGraph == phase \in {"nodegraph", "loop", "rendered"}

(***************************************************************************)
(* A scan of the text traverse produces from the nodes tree.  Outside a    *)
(* double-quoted string '{' and '[' open a grouping and '}' and ']' close  *)
(* one; inside a string a backslash escapes the byte after it.  The scan   *)
(* keeps the open groupings on a stack, each with the depth of the key     *)
(* that opened it.                                                         *)
(***************************************************************************)

\* byte j of s is escaped: an odd number of backslashes stands before it
Escaped(s, j) ==
    Cardinality({k \in 2..(j - 1) : \A m \in k..(j - 1) : s[m] = 92}) % 2 = 1

\* position i of the text of s lies inside a string, the text starting
\* inside one when inq holds
InQuote(s, i, inq) ==
    inq # (Cardinality({j \in 2..(i - 1) : s[j] = 34 /\ ~Escaped(s, j)}) % 2 = 1)

\* the positions of the bytes of s that open or close a grouping, in order
brackets(s, inq) ==
    SelectSeq([i \in 1..Len(s) |-> i],
              LAMBDA i : i >= 2 /\ s[i] \in {123, 91, 125, 93} /\ ~InQuote(s, i, inq))

\* a closing byte b met in a key at depth indent: it closes the grouping on
\* top of the stack, which must be of its kind ('{' is '}' - 2, '[' is
\* ']' - 2) and must have been opened by the key's parent
scanClose(sc, b, indent) ==
    IF sc.stack # <<>> /\ sc.stack[Len(sc.stack)] = <<b - 2, indent - 1>>
    THEN [sc EXCEPT !.stack = SubSeq(sc.stack, 1, Len(sc.stack) - 1)]
    ELSE [sc EXCEPT !.ok = FALSE]

\* the scan state after an opening or closing byte b of a key at depth indent
scanByte(sc, b, indent) ==
    IF b \in {123, 91} THEN [sc EXCEPT !.stack = Append(sc.stack, <<b, indent>>)]
    ELSE scanClose(sc, b, indent)

\* the scan state after the brackets of s at the positions ps, from the k-th on
RECURSIVE scanFrom(_, _, _, _, _)
scanFrom(sc, s, ps, k, indent) ==
    IF k > Len(ps) THEN sc
    ELSE scanFrom(scanByte(sc, s[ps[k]], indent), s, ps, k + 1, indent)

\* the scan of one visited key: when its text starts, exactly its ancestors
\* are open; the text is the key without its first byte
scanKey(sc, indent, s) ==
    [scanFrom([sc EXCEPT !.ok = sc.ok /\ Len(sc.stack) = indent],
              s, brackets(s, sc.inq), 1, indent)
        EXCEPT !.inq = InQuote(s, Len(s) + 1, sc.inq)]

\* the scan of the visits of a traversal from the k-th on
RECURSIVE scanVisits(_, _, _)
scanVisits(sc, visits, k) ==
    IF k > Len(visits) THEN sc
    ELSE scanVisits(scanKey(sc, visits[k][1], visits[k][2]), visits, k + 1)

\* the scan never closed what was not open, and ends with nothing open
scanBalanced(sc) == sc.ok /\ sc.stack = <<>> /\ ~sc.inq

BracketBalanced(tree) ==
    scanBalanced(scanVisits([stack |-> <<>>, inq |-> FALSE, ok |-> TRUE],
                            traverse(tree, 0), 1))

\* C1: after any sequence of node() calls and tooltip insertions, the text
\* traverse produces from the nodes tree is bracket-balanced: every subgraph
\* '{' and every node '[ ... tooltip="' is closed exactly once, by the
\* sentinel among its own children, after all its other children and before
\* its parent is closed; the scan never goes negative and ends empty.
C1_BracketBalanced ==
    InGraph => BracketBalanced(TreeOf(heap, nodes))

\* a graph with a nested subgraph, a node with tooltip entries and an edge
C1_Witness ==
    /\ phase = "rendered"
    /\ DOMAIN subgmap # {}
    /\ DOMAIN edges # {}
    /\ \E id \in DOMAIN heap :
          closeTooltip \in DOMAIN heap[id] /\ Cardinality(DOMAIN heap[id]) >= 3
    /\ BracketBalanced(TreeOf(heap, nodes))

(***************************************************************************)
(* Two runs over the same input: when nodegraph has returned, the program  *)
(* is started again on the same References tree and roots.                 *)
(***************************************************************************)

\* the program ends and is run again: the package-level variables are
\* initialised anew, the text of the finished run is kept for comparison
Rerun ==
    /\ phase = "rendered"
    /\ prev = None
    /\ prev' = graph
    /\ dirmap' = dirmap0
    /\ graphmap' = graphmap0
    /\ subgmap' = <<>>
    /\ nodemap' = <<>>
    /\ heap' = << (graphmap0[standard] :> 2) @@ (graphmap0[imports] :> 3)
                    @@ (graphmap0[vendor] :> 4),
                  (closeSubgraph :> 0), (closeSubgraph :> 0), (closeSubgraph :> 0) >>
    /\ edges' = EmptyTree
    /\ loop' = None
    /\ pairs' = {}
    /\ graph' = None
    /\ phase' = "nodegraph"
    /\ UNCHANGED <<callVars, walkVars, treeVars, symVars, pend, cur, must, may, in0, gomod>>

\* the inputs of the two-run specification: a module beside the roots and a
\* module beneath the standard library's root
RunWorlds ==
    { [mod |-> dirM, gomod |-> modM,
       rdirs |-> {dMa},
       ddirs |-> {dMb, dMab, dSf, dIx, dIy}],
      [mod |-> dirSc, gomod |-> modC,
       rdirs |-> {dirSc, dSca},
       ddirs |-> {dSca, dSf}] }

InitRuns ==
    /\ IdleTree
    /\ IdleWalk
    /\ IdleCalls
    /\ IdleCtl
    /\ imps = EmptyTree /\ ifcs = EmptyTree /\ typs = EmptyTree
    /\ vals = EmptyTree /\ fncs = EmptyTree /\ defs = EmptyTree
    /\ sets = EmptyTree
    /\ \E w \in RunWorlds :
          /\ dirmod = w.mod
          /\ gomod = w.gomod
          /\ \E T \in SubsetsUpTo({kpX} \X w.rdirs \X w.ddirs, MaxPairs) \ {{}} :
                refs = refsOf(T)
    /\ GraphStart
    /\ prev = None
    /\ phase = "nodegraph"

NextRuns == NextGraph \/ Rerun

SpecRuns == InitRuns /\ [][NextRuns]_vars

\* both runs read the same time
SameClock ==
    \E now \in Clock : HasPrefix(graph, header(gomod, now)) /\ HasPrefix(prev, header(gomod, now))

\* C8: two runs over identical input produce byte-identical output: the
\* text nodegraph returns depends on no map's iteration order, nor on
\* anything but the input trees and the roots.  Stated here for two runs
\* that even read the same time.
C8_SameOutput ==
    (phase = "rendered" /\ prev # None /\ SameClock) => graph = prev

\* the edge statements of edges that join the nodes a and b, written in
\* either direction
EdgesBetween(a, b) ==
    {e \in DOMAIN edges :
        \/ HasPrefix(e, <<10>> \o Quote(a) \o <<32, 45, 62, 32>> \o Quote(b) \o <<32, 91>>)
        \/ HasPrefix(e, <<10>> \o Quote(b) \o <<32, 45, 62, 32>> \o Quote(a) \o <<32, 91>>)}

\* C9: however many symbols of a target directory d are referenced from a
\* referencing directory r, nodegraph emits exactly one edge between the
\* nodes of r and d (for every pair of resolved directories it does not skip).
C9_ExactlyOneEdge ==
    phase = "rendered" =>
        \A p \in pairs :
            (p.r # 0 /\ p.d # 0 /\ ~skipped(p.r, p.rnode, p.d, p.dnode)) =>
                Cardinality(EdgesBetween(p.rnode, p.dnode)) = 1

(***************************************************************************)
(* Specification SpecKeys: a tree is built by add() calls, then sortkeys() *)
(* and traverse() are called on it; the range loop of sortkeys produces    *)
(* the keys of the map in any order.                                       *)
(***************************************************************************)

\* for key := range tree { if key != "" { keys[i] = key; i++ } }; keys = keys[0:i]
rangeKeysAll(order) == order
rangeKeys(order) == SelectSeq(order, LAMBDA key : key # <<>>)

\* data.Swap(i, j) on the slice s
swap(s, i, j) == [s EXCEPT ![i] = s[j], ![j] = s[i]]

\* the less function of sort.Slice on the indices i, j of the slice s, with
\* the tie between equal trimmed keys left out
lessAtTrimmed(s, i, j) == StrLess(Trim(s[i], MarkerBytes), Trim(s[j], MarkerBytes))
\* the less function of sort.Slice on the indices i, j of the slice s
lessAt(s, i, j) == less(s[i], s[j])

\* sort.Slice on a slice of at most 12 elements is an insertion sort:
\* for j := i; j > a && less(j, j-1); j-- { swap(j, j-1) }
RECURSIVE sink(_, _)
sink(s, j) ==
    IF j > 1 /\ lessAt(s, j, j - 1) THEN sink(swap(s, j, j - 1), j - 1) ELSE s

\* for i := a + 1; i < b; i++ { ... }
RECURSIVE insertionSort(_, _)
insertionSort(s, i) ==
    IF i > Len(s) THEN s ELSE insertionSort(sink(s, i), i + 1)

\* sortkeys on a map whose range loop produces its keys in the given order
sortkeysRanged(order) == insertionSort(rangeKeys(order), 2)

\* the orders in which a range loop can produce the keys S
Orders(S) ==
    {o \in [1..Cardinality(S) -> S] : \A i, j \in 1..Cardinality(S) : o[i] = o[j] => i = j}

\* keys add() is called with: those of SpecTree and the key that closes a subgraph
SortedKeys == TreeKeys \cup {closeSubgraph}
\* keys add() is called with below the top level
NestedKeys == {<<>>, kFoo, kStarFoo}
KeyPaths ==
    SeqsUpTo(SortedKeys, 1) \cup {<<k, c>> : k \in NestedKeys, c \in NestedKeys}

InitKeys == InitTree

\* one call sortkeys(tr)
Sortkeys(order) ==
    /\ phase \in {"tree", "keys"}
    /\ phase' = "keys"
    /\ ranged' = order
    /\ sorted' = sortkeysRanged(order)
    /\ UNCHANGED <<tr, addArg, trBefore, nAdds, visited>>
    /\ UNCHANGED <<symVars, pend, cur, must, may, in0, graphVars, callVars, walkVars>>

\* one call traverse(tr, 0, fn)
Traverse ==
    /\ phase \in {"tree", "keys"}
    /\ phase' = "keys"
    /\ visited' = traverse(tr, 0)
    /\ UNCHANGED <<tr, addArg, trBefore, nAdds, ranged, sorted>>
    /\ UNCHANGED <<symVars, pend, cur, must, may, in0, graphVars, callVars, walkVars>>

NextKeys ==
    \/ \E path \in KeyPaths : Add(path)
    \/ \E order \in Orders(DOMAIN tr) : Sortkeys(order)
    \/ Traverse

SpecKeys == InitKeys /\ [][NextKeys]_vars

\* the keys that close a subgraph and a node's tooltip
Sentinels == {closeSubgraph, closeTooltip}

\* the keys a slice holds
Range(s) == {s[i] : i \in DOMAIN s}

\* the position of the key k in the slice s
Pos(s, k) == CHOOSE i \in DOMAIN s : s[i] = k

\* the order of the pair (key with leading and trailing '*', '(' and ')'
\* stripped, original key), in ascending byte order
PairLess(a, b) ==
    \/ StrLess(Trim(a, MarkerBytes), Trim(b, MarkerBytes))
    \/ /\ Trim(a, MarkerBytes) = Trim(b, MarkerBytes)
       /\ StrLess(a, b)

C12_SortedByPair ==
    sorted # NoCall =>
        /\ Range(sorted) = DOMAIN tr \ {<<>>}
        /\ Len(sorted) = Cardinality(DOMAIN tr \ {<<>>})
        /\ \A i, j \in DOMAIN sorted : i < j => PairLess(sorted[i], sorted[j])
        /\ \A o \in Orders(DOMAIN tr) : sortkeysRanged(o) = sorted

\* the range loop produced "Foo", "*Foo", "Bar" and sortkeys returned
\* "Bar", "*Foo", "Foo"
C12_Witness ==
    /\ ranged = <<kFoo, kStarFoo, kBar>>
    /\ sorted = <<kBar, kStarFoo, kFoo>>

\* "*Foo" was inserted, then "Foo", and sortkeys was called on the level
StarFooThenFoo ==
    /\ sorted # NoCall
    /\ addArg = <<kFoo>>
    /\ kStarFoo \in DOMAIN trBefore /\ kFoo \notin DOMAIN trBefore

\* C13 as stated: for a level holding "*Foo" and "Foo" (inserted in that
\* order), iteration yields "Foo" before "*Foo".
C13_FooBeforeStarFoo ==
    StarFooThenFoo => Pos(sorted, kFoo) < Pos(sorted, kStarFoo)

\* C13 amended: for a level holding "*Foo" and "Foo" (inserted in that
\* order), iteration yields "*Foo" before "Foo".
C13_StarFooBeforeFoo ==
    StarFooThenFoo => Pos(sorted, kStarFoo) < Pos(sorted, kFoo)

\* "*Foo" was inserted, then "Foo"; the range loop produced "Foo" first
C13_Witness ==
    /\ StarFooThenFoo
    /\ ranged = <<kFoo, kStarFoo>>
    /\ sorted = <<kStarFoo, kFoo>>

\* the paths of a tree all of whose keys are non-empty
KeyedPaths(tree) == {p \in PathsOf(tree) : \A i \in DOMAIN p : p[i] # <<>>}

\* the last of the first i visits made with the given indent
VisitAbove(v, i, indent) ==
    CHOOSE j \in 1..i : v[j][1] = indent /\ \A k \in (j + 1)..i : v[k][1] # indent

\* the path of the node of visit i: the key of the visit and, for every
\* smaller indent, the key of the last visit made with it
PathOfVisit(v, i) == [l \in 1..(v[i][1] + 1) |-> v[VisitAbove(v, i, l - 1)][2]]

\* no visit descends more than one level below the visit before it, and the
\* first is at level 0
Outline(v) ==
    \A i \in DOMAIN v : v[i][1] \in 0..(IF i = 1 THEN 0 ELSE v[i - 1][1] + 1)

wHidden == <<47, 109, 47, 46, 103>>
\* "/m/testdata"
wTestdata == <<47, 109, 47, 116, 101, 115, 116, 100, 97, 116, 97>>
\* "/m/a/xinternal"
wXinternal == <<47, 109, 47, 97, 47, 120, 105, 110, 116, 101, 114, 110, 97, 108>>
\* "/i/g"
wIg == <<47, 105, 47, 103>>
\* "/i/g/x"
wIgx == <<47, 105, 47, 103, 47, 120>>
\* "/i/g/x@1"
wIgx1 == <<47, 105, 47, 103, 47, 120, 64, 49>>
\* "/i/g/x@1/y"
wIgx1y == <<47, 105, 47, 103, 47, 120, 64, 49, 47, 121>>
\* "/i/g/x/y"
wIgxy == <<47, 105, 47, 103, 47, 120, 47, 121>>
\* "/i/g/q"
wIgq == <<47, 105, 47, 103, 47, 113>>
\* "main"
pMain == <<109, 97, 105, 110>>
\* "a"
pA == <<97>>
\* "a_test"
pATest == <<97, 95, 116, 101, 115, 116>>
\* "f"
pF == <<102>>
\* "x"
pX == <<120>>
\* "y"
pY == <<121>>
\* "q"
pQ == <<113>>
\* "internal"
sInternal == <<105, 110, 116, 101, 114, 110, 97, 108>>
\* "testdata"
sTestdata == <<116, 101, 115, 116, 100, 97, 116, 97>>
\* "_test"
sTest == <<95, 116, 101, 115, 116>>

\* skipdirs identifies directories to ignore for parsing
skipdirs == {sInternal, sTestdata}

\* strings.HasSuffix(s, suffix)
HasSuffix(s, suffix) ==
    Len(s) >= Len(suffix) /\ SubSeq(s, Len(s) - Len(suffix) + 1, Len(s)) = suffix

\* the directories of the file system
FsDirs == {dirM, dMa, wHidden, wTestdata, wXinternal, wIg, wIgx1, wIgx1y, dSf}

\* the names of the packages the go files of a directory declare
PkgsOf(dir) ==
    CASE dir = dirM -> {pMain}
      [] dir = dMa -> {pA, pATest}
      [] dir = wXinternal -> {pX}
      [] dir = wIgx1 -> {pX, pMain}
      [] dir = wIgx1y -> {pY}
      [] dir = dSf -> {pF}
      [] OTHER -> {}

\* the imports of a package: the package name and the local directory path
\* addImp converts each import path to
ImportsOf(dir, pkg) ==
    CASE dir = dirM /\ pkg = pMain -> {<<pA, dMa>>, <<pF, dSf>>}
      [] dir = dMa /\ pkg = pA -> {<<pX, wIgx>>, <<pQ, wIgq>>}
      [] dir = dMa /\ pkg = pATest -> {<<pY, wIgxy>>}
      [] dir = wIgx1 /\ pkg = pX -> {<<pY, wIgxy>>, <<pF, dSf>>}
      [] dir = wIgx1 /\ pkg = pMain -> {<<pQ, wIgq>>}
      [] dir = wIgx1y /\ pkg = pY -> {<<pF, dSf>>}
      [] OTHER -> {}

\* the directory packages.Load finds an imported package in
LoadedDir(abs) ==
    CASE abs = wIgx -> wIgx1
      [] abs = wIgxy -> wIgx1y
      [] OTHER -> abs

\* os.ReadDir(dir) succeeds
Readable(dir) == dir \in FsDirs /\ dir \notin fsys.unreadable

\* the names of the entries of a directory
DirEntries(dir) == {Base(d) : d \in {c \in FsDirs : Dir(c) = dir}}

\* sort.Strings on a set of distinct strings
RECURSIVE sortStrings(_)
RECURSIVE sortStringsFrom(_, _)
sortStrings(S) ==
    IF S = {} THEN <<>>
    ELSE sortStringsFrom(S, CHOOSE m \in S : \A o \in S \ {m} : StrLess(m, o))
sortStringsFrom(S, m) == <<m>> \o sortStrings(S \ {m})

\* the versions of the package named base among the entries of dir:
\* if b, a, ok := strings.Cut(ent.Name(), "@"); ok && b == base
versions(dir, base) ==
    {Cut(ent, <<64>>)[2] : ent \in {e \in DirEntries(dir) : Cut(e, <<64>>)[3] /\ Cut(e, <<64>>)[1] = base}}

\* return path.Join(dir, base+"@"+vers[len(vers)-1], rem)
latest(dir, base, vers, rem) ==
    PathJoin(PathJoin(dir, base \o <<64>> \o vers[Len(vers)]), rem)

\* verspath checks if import path references a versioned name (i.e. @vn.n.n)
RECURSIVE verspathFrom(_, _)
verspathAt(dir, base, rem) ==
    IF dir = dirimps THEN <<>>
    ELSE IF Readable(dir) /\ versions(dir, base) # {}
         THEN latest(dir, base, sortStrings(versions(dir, base)), rem)
         ELSE verspathFrom(dir, PathJoin(base, rem))
verspathFrom(pth, rem) == verspathAt(Dir(pth), Base(pth), rem)
verspath(pth) == verspathFrom(pth, <<>>)

\* the imports of a package added to imps: add(imps, pkg, abs) for each
RECURSIVE addImps(_, _)
addImpsFrom(t, S, i) == addImps(add(t, <<i[1], i[2]>>), S \ {i})
addImps(t, S) == IF S = {} THEN t ELSE addImpsFrom(t, S, CHOOSE i \in S : TRUE)

\* count[k]++ on a history of calls
counted(count, k) ==
    [x \in (DOMAIN count) \cup {k} |->
        IF x = k THEN (IF k \in DOMAIN count THEN count[k] + 1 ELSE 1) ELSE count[x]]

\* ast.Walk(visitor{pkg: pkg}, pkg): the visitor adds the imports of the package
astWalk(st, dir, pkg) ==
    [st EXCEPT !.astWalks = counted(@, <<dir, pkg>>),
               !.imps = addImps(@, ImportsOf(dir, pkg))]

\* skip embedded non-API packages
walkedPkgs(pkgs) ==
    {pkg \in pkgs : ~(HasSuffix(pkg, sTest) \/ (Cardinality(pkgs) > 1 /\ pkg = pMain))}

\* for _, pkg := range pkgs { ast.Walk(...) } of the parse that calls parser.ParseDir
RECURSIVE walkPkgs(_, _, _)
walkPkgsFrom(st, dir, pkgs, pkg) == walkPkgs(astWalk(st, dir, pkg), dir, pkgs \ {pkg})
walkPkgs(st, dir, pkgs) ==
    IF pkgs = {} THEN st ELSE walkPkgsFrom(st, dir, pkgs, CHOOSE pkg \in pkgs : TRUE)

\* scan(pkg), pkg.Dir = dir: the syntax of the package is walked unless
\* scannedPkgs records the directory
scan(st, dir) ==
    IF dir \in st.scannedPkgs THEN st
    ELSE [st EXCEPT !.scannedPkgs = @ \cup {dir},
                    !.scanWalks = counted(@, dir),
                    !.imps = addImps(@, UNION {ImportsOf(dir, pkg) : pkg \in walkedPkgs(PkgsOf(dir))})]

\* for _, pkg := range pkg.Imports { scan(pkg) }
RECURSIVE scanAll(_, _)
scanAllFrom(st, dirs, dir) == scanAll(scan(st, dir), dirs \ {dir})
scanAll(st, dirs) ==
    IF dirs = {} THEN st ELSE scanAllFrom(st, dirs, CHOOSE dir \in dirs : TRUE)

\* the directories of the packages a package imports
importedDirs(dir, pkgs) ==
    {LoadedDir(i[2]) : i \in UNION {ImportsOf(dir, pkg) : pkg \in pkgs}}

\* for _, pkg := range pkgs { scan(pkg); for _, pkg := range pkg.Imports { scan(pkg) } }
\* of the parse that calls packages.Load
scanPkgs(st, dir, pkgs) ==
    IF pkgs = {} THEN st ELSE scanAll(scan(st, dir), importedDirs(dir, pkgs))

\* parse after parsedDirs[dir] = struct{}{}: directories with a skip word in
\* their path and directories the loader fails on are left alone
parseMarked(st, dir) ==
    IF \E skip \in skipdirs : Contains(dir, skip) THEN st
    ELSE IF dir \in fsys.broken THEN st
    ELSE IF loader = "ParseDir" THEN walkPkgs(st, dir, walkedPkgs(PkgsOf(dir)))
    ELSE scanPkgs(st, dir, walkedPkgs(PkgsOf(dir)))

\* parsedDirs[dir] = struct{}{}
parseMark(st, dir) == parseMarked([st EXCEPT !.parsedDirs = @ \cup {dir}], dir)

\* parse with the test of parsedDirs left out
parseUnguarded(st, dir) == parseMark(st, dir)

\* parse invokes the go parser and walks the AST.
parse(st, dir) ==
    IF dir \in st.parsedDirs THEN [st EXCEPT !.again = @ \cup {dir}]
    ELSE parseMark(st, dir)

\* fmt.Errorf("error walking %q at %s: %w", pth, dir, err)
\* "error walking ", " at ", ": "
walkError(pth, dir, cause) ==
    <<101, 114, 114, 111, 114, 32, 119, 97, 108, 107, 105, 110, 103, 32>> \o Quote(pth)
    \o <<32, 97, 116, 32>> \o dir \o <<58, 32>> \o cause \o <<32>> \o dir

\* the error of os.Lstat and of os.ReadDir: "lstat", "open"
causeLstat == <<108, 115, 116, 97, 116>>
causeOpen == <<111, 112, 101, 110>>

\* a walk that ended: the state it left and the error it returned
walked(st, e) == [st |-> st, err |-> e]

\* if _, ok := skipdirs[base]; ok || base[0] == '.' { return filepath.SkipDir }
skipsDir(base) == base \in skipdirs \/ base[1] = 46

\* filepath.WalkDir below the root: the callback is called for the directory,
\* then the directory is read and its entries are walked in the order of
\* their names; a directory that cannot be read is handed to the callback a
\* second time, with the error
RECURSIVE walkFrom(_, _, _)
walkRead(st, pth, dir, rest) ==
    IF dir \in fsys.unreadable
    THEN walked([st EXCEPT !.failures = @ \cup {walkError(pth, dir, causeOpen)}],
                walkError(pth, dir, causeOpen))
    ELSE walkFrom(st, pth, sortStrings({c \in FsDirs : Dir(c) = dir}) \o rest)
walkEntry(st, pth, dir, rest) ==
    IF skipsDir(Base(dir)) THEN walkFrom(st, pth, rest)
    ELSE walkRead(parse(st, dir), pth, dir, rest)
walkFrom(st, pth, stack) ==
    IF stack = <<>> THEN walked(st, None)
    ELSE walkEntry(st, pth, Head(stack), Tail(stack))

\* filepath.WalkDir(pth, fn): os.Lstat of the root fails when it does not exist
WalkDir(st, pth) ==
    IF pth \notin FsDirs
    THEN walked([st EXCEPT !.failures = @ \cup {walkError(pth, pth, causeLstat)}],
                walkError(pth, pth, causeLstat))
    ELSE walkFrom(st, pth, <<pth>>)

\* walk the directory tree and parse the go files.
walk(st, pth) ==
    IF ~subdir(dirimps, pth).err THEN WalkDir(st, verspath(pth)) ELSE WalkDir(st, pth)

\* cwd current working directory with module source
cwd == dirmod

\* the maps parse and the visitor read and write
WalkState ==
    [parsedDirs |-> parsedDirs, scannedPkgs |-> scannedPkgs, astWalks |-> astWalks,
     scanWalks |-> scanWalks, again |-> again, failures |-> failures, imps |-> imps]

\* the maps as a walk left them
WalkLeft(st) ==
    /\ parsedDirs' = st.parsedDirs /\ scannedPkgs' = st.scannedPkgs
    /\ astWalks' = st.astWalks /\ scanWalks' = st.scanWalks
    /\ again' = st.again /\ failures' = st.failures /\ imps' = st.imps

\* the local directory paths imps holds: for pth := range imps[node]
ImpPaths(t) == UNION {DOMAIN t[pkg] : pkg \in DOMAIN t}

\* gocore.Error("WalkDir", err, map[string]string{"directory": cwd})
mainError(e) == [name |-> "WalkDir", err |-> e, directory |-> cwd]

\* Main after walk(cwd) returned w
MainWalked(w) ==
    /\ WalkLeft(w.st)
    /\ IF w.err # None
       THEN phase' = "failed" /\ err' = mainError(w.err) /\ pend' = {}
       ELSE /\ err' = None
            /\ IF loader = "Load"
               THEN phase' = "walked" /\ pend' = {}
               ELSE phase' = "imports" /\ pend' = ImpPaths(w.st.imps)

\* Main: if err := walk(cwd); err != nil { return gocore.Error(...) }
MainWalk ==
    /\ phase = "main"
    /\ MainWalked(walk(WalkState, cwd))
    /\ UNCHANGED <<callVars, treeVars, graphVars, dirmod, ifcs, typs, vals, fncs, defs, refs, sets>>
    /\ UNCHANGED <<cur, must, may, in0, fsys, loader>>

\* Main after walk(pth) returned w in the loop over imps: the error is dropped
ImportWalked(pth, w) ==
    /\ WalkLeft(w.st)
    /\ pend' = pend \ {pth}
    /\ may' = (may \cup (ImpPaths(w.st.imps) \ ImpPaths(imps))) \ {pth}

\* Main: one iteration of for pth := range imps[node] { walk(pth) }; pend
\* holds the paths imps held when the loop began, may those added since
WalkImport(pth) ==
    /\ phase = "imports"
    /\ pth \in pend \cup may
    /\ ImportWalked(pth, walk(WalkState, pth))
    /\ UNCHANGED <<callVars, treeVars, graphVars, dirmod, ifcs, typs, vals, fncs, defs, refs, sets>>
    /\ UNCHANGED <<phase, cur, must, in0, fsys, loader, err>>

\* Main: the loop over imps ends
ImportsDone ==
    /\ phase = "imports"
    /\ pend = {}
    /\ phase' = "walked"
    /\ may' = {}
    /\ UNCHANGED <<treeVars, graphVars, symVars, callVars, walkVars, pend, cur, must, in0>>

\* Main: defs4refs(); typesets(); report(); os.Stdout.Write(dot(nodegraph(refs)))
MainWrite ==
    /\ phase = "walked"
    /\ phase' = "written"
    /\ UNCHANGED <<treeVars, graphVars, symVars, callVars, walkVars, pend, cur, must, may, in0>>

\* the number of directories that cannot be read and that cannot be parsed
MaxFaults == 1

InitWalk ==
    /\ IdleTree
    /\ IdleCalls
    /\ IdleGraph
    /\ dirmod = dirM
    /\ imps = EmptyTree /\ ifcs = EmptyTree /\ typs = EmptyTree
    /\ vals = EmptyTree /\ fncs = EmptyTree /\ defs = EmptyTree
    /\ refs = EmptyTree /\ sets = EmptyTree
    /\ phase = "main"
    /\ IdleCtl
    /\ fsys \in {[unreadable |-> U, broken |-> B] :
                    U \in SubsetsUpTo(FsDirs, MaxFaults), B \in SubsetsUpTo(FsDirs, MaxFaults)}
    /\ loader \in {"ParseDir", "Load"}
    /\ parsedDirs = {} /\ scannedPkgs = {}
    /\ astWalks = <<>> /\ scanWalks = <<>> /\ again = {} /\ failures = {} /\ err = None

WalkPaths == FsDirs \cup {wIgx, wIgxy, wIgq}

NextWalk ==
    \/ MainWalk
    \/ \E pth \in WalkPaths : WalkImport(pth)
    \/ ImportsDone
    \/ MainWrite

SpecWalk == InitWalk /\ [][NextWalk]_vars

\* C15: for any sequence of parse(dir) calls, the syntax of a directory's
\* package is walked at most once, and scan walks a package directory at
\* most once.
C15_ParsedOnce ==
    /\ \A u \in DOMAIN astWalks : astWalks[u] <= 1
    /\ \A dir \in DOMAIN scanWalks : scanWalks[dir] <= 1

\* parse was called again for the directory of package y, which the walk of
\* the import x had parsed before the walk of the import x/y reached it
C15_Witness ==
    /\ loader = "ParseDir"
    /\ wIgx1y \in again
    /\ astWalks[<<wIgx1y, pY>>] = 1
    /\ astWalks[<<wIgx1, pX>>] = 1

\* C16: a directory walk failure at any path is propagated as a wrapped
\* error naming the failing path and aborts the overall walk: when any walk
\* fails, Main returns the error and nothing is written.
C16_WalkFailureAborts ==
    failures # {} =>
        /\ phase \notin {"walked", "written"}
        /\ phase = "failed" => err.err \in failures

(***************************************************************************)
(* The edges of nodegraph, pair by pair.                                   *)
(***************************************************************************)

\* the pair's iteration of the inner loop wrote an edge
Emits(p) == p.edge.key # <<>>

\* both directories of the pair lie on a root of dirmap
Resolved(p) == p.r # 0 /\ p.d # 0

\* the order of the top-level subgraph of a node, as node() returned it with
\* the node's label
NodeOrder(name) ==
    CHOOSE o \in 0..4 :
        \E q \in pairs : (q.rnode = name /\ q.r = o) \/ (q.dnode = name /\ q.d = o)

\* the label the edge statement is written from, and the one it is written to
TailOf(p) == p.edge.dnode
HeadOf(p) == p.edge.rnode

\* "tailport=w headport=e"
portsWE ==
    <<116, 97, 105, 108, 112, 111, 114, 116, 61, 119, 32, 104, 101, 97, 100,
      112, 111, 114, 116, 61, 101>>

\* C17: for each resolved pair (r, d), nodegraph emits an edge if and only
\* if node_r # node_d and (the module root is the standard-library root, or
\* one of the two has order 2); a skipped pair adds no edge text and no
\* tooltip entry.
C17_EdgeIffRule ==
    \A p \in pairs :
        Resolved(p) =>
            /\ Emits(p) <=> (/\ p.rnode # p.dnode
                             /\ (dirmod = dirstd \/ p.r = 2 \/ p.d = 2))
            /\ ~Emits(p) => ~p.tipped

\* C18: every emitted edge is written from the endpoint with the lower order
\* to the endpoint with the higher one; with equal orders, from the endpoint
\* whose label sorts lower.
C18_LowToHigh ==
    \A p \in pairs :
        (Resolved(p) /\ Emits(p)) =>
            \/ NodeOrder(TailOf(p)) < NodeOrder(HeadOf(p))
            \/ /\ NodeOrder(TailOf(p)) = NodeOrder(HeadOf(p))
               /\ StrLess(TailOf(p), HeadOf(p))

C20_NodeDeterministic ==
    \A p, q \in pairs :
        /\ p.rabs = q.rabs => (p.r = q.r /\ p.rnode = q.rnode)
        /\ p.dabs = q.dabs => (p.d = q.d /\ p.dnode = q.dnode)
        /\ p.rabs = q.dabs => (p.r = q.d /\ p.rnode = q.dnode)

(***************************************************************************)
(* Specification SpecNodes: node() called for the directories of a run in  *)
(* every order, with repetitions, on the package-level maps as nodegraph   *)
(* sets them up.                                                           *)
(***************************************************************************)

\* number of node() calls of a run
MaxCalls == 4

\* the nodes tree as a value
NodesTree(h) == TreeOf(h, nodes)

\* node(abs), n being what it returns when the range over dirmap stops at pth
NodeCalled(abs, pth, n) ==
    /\ heap' = n.st.heap
    /\ subgmap' = n.st.subgmap
    /\ nodemap' = n.st.nodemap
    /\ calls' = Append(calls,
                       [abs |-> abs, pth |-> pth, order |-> n.order, node |-> n.node,
                        tree |-> n.tree,
                        kept |-> /\ NodesTree(n.st.heap) = NodesTree(heap)
                                 /\ n.st.subgmap = subgmap
                                 /\ n.st.nodemap = nodemap])

NodeCall(abs) ==
    /\ phase = "loop"
    /\ Len(calls) < MaxCalls
    /\ \E w \in Worlds : w.mod = dirmod /\ abs \in w.rdirs \cup w.ddirs
    /\ \E pth \in Resolutions(abs) :
            NodeCalled(abs, pth, node(GraphState, dirmap, graphmap, abs, pth))
    /\ UNCHANGED <<walkVars, treeVars, symVars, ctlVars, left, fnc, sgn>>
    /\ UNCHANGED <<gomod, dirmap, graphmap, edges, loop, pairs, graph, prev>>

InitNodes ==
    /\ IdleTree
    /\ IdleWalk
    /\ IdleCalls
    /\ IdleCtl
    /\ imps = EmptyTree /\ ifcs = EmptyTree /\ typs = EmptyTree
    /\ vals = EmptyTree /\ fncs = EmptyTree /\ defs = EmptyTree
    /\ sets = EmptyTree /\ refs = EmptyTree
    /\ \E w \in Worlds : dirmod = w.mod /\ gomod = w.gomod
    /\ GraphStart
    /\ prev = None
    /\ phase = "nodegraph"

NextNodes ==
    \/ NgBegin
    \/ \E abs \in GraphDirs : NodeCall(abs)

SpecNodes == InitNodes /\ [][NextNodes]_vars

\* the maps of the nodes tree: the heap indices reachable from nodes
RECURSIVE MapsBelow(_, _)
MapsBelow(h, id) ==
    IF id = 0 THEN {}
    ELSE {id} \cup UNION {MapsBelow(h, h[id][k]) : k \in DOMAIN h[id]}

\* C21: after every node() call, for every label that both a leaf node and a
\* cluster have, the leaf is a direct child of the cluster and is not the
\* cluster's sibling, whichever of the two was created first.
C21_LeafInsideCluster ==
    \A name \in (DOMAIN subgmap) \cap (DOMAIN nodemap) :
        /\ \E t \in MapsBelow(heap, nodes) : subgmap[name] \in DOMAIN heap[t]
        /\ \A t \in MapsBelow(heap, nodes) :
              subgmap[name] \in DOMAIN heap[t] =>
                  /\ nodemap[name] \notin DOMAIN heap[t]
                  /\ nodemap[name] \in DOMAIN heap[heap[t][subgmap[name]]]

\* the leaf of "m: a" was created before its cluster and moved into it, in a
\* run that also placed a leaf in a cluster that was there before
C21_Witness ==
    /\ Len(calls) >= 2
    /\ calls[1].abs = dMa /\ calls[Len(calls)].abs = dMab
    /\ label(modM, <<97>>) \in (DOMAIN subgmap) \cap (DOMAIN nodemap)
    /\ \E t \in MapsBelow(heap, nodes) :
          /\ nodemap[label(modM, <<97>>)] \in DOMAIN heap[t]
          /\ heap[t][nodemap[label(modM, <<97>>)]] = calls[1].tree

\* the leaf subtree a call returned, as a value
LeafReturned(c) == TreeOf(heap, c.tree)

\* the maps of the nodes tree that hold the statement key
Holders(key) == {t \in MapsBelow(heap, nodes) : key \in DOMAIN heap[t]}

\* C22: calling node(abs) again for a directory already visited returns the
\* same order, the same label and the same leaf subtree and leaves the nodes
\* tree, subgmap and nodemap unchanged; no cluster or leaf appears twice in
\* the nodes tree.
C22_Idempotent ==
    /\ \A i, j \in DOMAIN calls :
          (i < j /\ calls[i].abs = calls[j].abs) =>
              /\ calls[j].order = calls[i].order
              /\ calls[j].node = calls[i].node
              /\ calls[j].order # 0 => calls[j].tree = calls[i].tree
              /\ LeafReturned(calls[j]) = LeafReturned(calls[i])
              /\ calls[j].kept
    /\ \A name \in DOMAIN subgmap : Cardinality(Holders(subgmap[name])) <= 1
    /\ \A name \in DOMAIN nodemap : Cardinality(Holders(nodemap[name])) <= 1

\* the heap, subgmap and nodemap when nodegraph enters its range loops
LoopStart ==
    [heap |-> IF dirmod # dirstd
              THEN << (graphmap[standard] :> 2) @@ (graphmap[imports] :> 3)
                        @@ (graphmap[vendor] :> 4) @@ (graphmap[module] :> 5),
                      (closeSubgraph :> 0), (closeSubgraph :> 0), (closeSubgraph :> 0),
                      (closeSubgraph :> 0) >>
              ELSE << (graphmap[standard] :> 2) @@ (graphmap[imports] :> 3)
                        @@ (graphmap[vendor] :> 4),
                      (closeSubgraph :> 0), (closeSubgraph :> 0), (closeSubgraph :> 0) >>,
     subgmap |-> <<>>, nodemap |-> <<>>]

\* the root one run of the range over dirmap stops at for abs
SomeRoot(abs) == CHOOSE pth \in Resolutions(abs) : TRUE

\* node() called for the directories of a sequence, one after the other
RECURSIVE VisitAll(_, _)
VisitAll(st, abss) ==
    IF abss = <<>> THEN st
    ELSE VisitAll(node(st, dirmap, graphmap, abss[1], SomeRoot(abss[1])).st, Tail(abss))

\* the directories the calls made so far visited, each once, in the order of
\* their names
VisitedSorted == sortStrings({calls[i].abs : i \in DOMAIN calls})

\* C30: node() calls commute: every order of visiting a set of directories,
\* with any repetitions, ends in the same nodes tree, the same subgmap and
\* nodemap and the same (order, label) for each directory.
C30_CallsCommute ==
    (phase = "loop" /\ calls # <<>>) =>
        /\ NodesTree(heap) = NodesTree(VisitAll(LoopStart, VisitedSorted).heap)
        /\ subgmap = VisitAll(LoopStart, VisitedSorted).subgmap
        /\ nodemap = VisitAll(LoopStart, VisitedSorted).nodemap
        /\ \A i, j \in DOMAIN calls :
              calls[i].abs = calls[j].abs =>
                  calls[i].order = calls[j].order /\ calls[i].node = calls[j].node

(***************************************************************************)
(* The order traverse visits the nodes tree in: the keys of each map in    *)
(* the order of sortkeys.                                                  *)
(***************************************************************************)

\* the keys of the map at heap index t as traverse visits them
VisitOrder(t) == sortkeys(heap[t])

\* key is a subgraph statement of a package directory, a node statement or
\* tooltip entry, a close sentinel
IsCluster(key) == key # <<>> /\ key[1] = 0
IsLeafOrTip(key) == key # <<>> /\ key[1] = 32
IsClose(key) == key \in {closeSubgraph, closeTooltip}

\* the top-level subgraph statements the nodes tree holds, in the order
\* Standard, Module, Imported, Vendored
TopOrder ==
    SelectSeq(<<graphmap[standard]>>
              \o (IF dirmod # dirstd THEN <<graphmap[module]>> ELSE <<>>)
              \o <<graphmap[imports], graphmap[vendor]>>,
              LAMBDA gr : gr \in DOMAIN heap[nodes])

\* C23: in every reachable nodes tree traverse visits the close sentinel of
\* each cluster and leaf after all of its siblings, sub-clusters before the
\* leaf nodes of the same cluster, and the top-level clusters in the order
\* Standard, Module, Imported, Vendored.
C23_SentinelsLastTopFixed ==
    phase \in {"loop", "rendered"} =>
        /\ \A t \in MapsBelow(heap, nodes) \ {nodes} :
              /\ \E key \in DOMAIN heap[t] : IsClose(key)
              /\ IsClose(VisitOrder(t)[Len(VisitOrder(t))])
              /\ \A i, j \in DOMAIN VisitOrder(t) :
                    (IsCluster(VisitOrder(t)[i]) /\ IsLeafOrTip(VisitOrder(t)[j])) => i < j
        /\ VisitOrder(nodes) = TopOrder

\* the module's cluster holds a sub-cluster, a leaf and its sentinel, and a
\* leaf holds tooltip entries and its sentinel; the module's name sorts
\* before "std" and after "import"
C23_Witness ==
    /\ phase = "rendered"
    /\ gomod = modM
    /\ StrLess(imports, gomod) /\ StrLess(gomod, standard)
    /\ Len(TopOrder) = 4
    /\ \E key \in DOMAIN heap[heap[nodes][graphmap[module]]] : IsCluster(key)
    /\ \E key \in DOMAIN heap[heap[nodes][graphmap[module]]] : IsLeafOrTip(key)
    /\ \E t \in MapsBelow(heap, nodes) :
          /\ closeTooltip \in DOMAIN heap[t]
          /\ Cardinality(DOMAIN heap[t]) >= 3

\* C27: in every emitted edge the arrowhead lies on the definer's endpoint:
\* with dir=forward the tail is the referencer's node and the head the
\* definer's, with dir=back the tail is the definer's node and the head the
\* referencer's.
C27_ArrowheadOnDefiner ==
    \A p \in pairs :
        (Resolved(p) /\ Emits(p)) =>
            IF p.edge.dir = dirForward
            THEN TailOf(p) = p.rnode /\ HeadOf(p) = p.dnode
            ELSE TailOf(p) = p.dnode /\ HeadOf(p) = p.rnode

\* the tooltip entries under the leaf node labelled name
TooltipsOf(name) ==
    UNION {DOMAIN heap[heap[t][nodemap[name]]] \ {closeTooltip} :
              t \in Holders(nodemap[name])}

\* the label is written as the tail or the head of an emitted edge
IsEndpoint(name) == \E p \in pairs : Emits(p) /\ name \in {TailOf(p), HeadOf(p)}

\* every pair with the directory labelled name was skipped (or it has none)
AllSkipped(name) == \A p \in pairs : (p.rnode = name \/ p.dnode = name) => ~Emits(p)

\* C28 as stated: every leaf node present in the nodes tree when nodegraph
\* renders is an endpoint of at least one emitted edge.
C28_EveryLeafAnEndpoint ==
    phase = "rendered" => \A name \in DOMAIN nodemap : IsEndpoint(name)

\* C28 amended: every leaf node that holds a tooltip entry when nodegraph
\* renders is an endpoint of at least one emitted edge; a directory whose
\* pairs were all skipped appears as a leaf node without tooltip entry.
C28_TippedLeafAnEndpoint ==
    phase = "rendered" =>
        \A name \in DOMAIN nodemap :
            /\ Holders(nodemap[name]) # {}
            /\ TooltipsOf(name) # {} => IsEndpoint(name)
            /\ AllSkipped(name) => TooltipsOf(name) = {}

\* the output holds a leaf that is no endpoint (a package that refers to
\* itself only) beside two leaves joined by an edge
C28_Witness ==
    /\ phase = "rendered"
    /\ \E name \in DOMAIN nodemap :
          /\ ~IsEndpoint(name)
          /\ TooltipsOf(name) = {}
          /\ \E p \in pairs : p.rnode = name /\ p.dnode = name
    /\ \E name \in DOMAIN nodemap : IsEndpoint(name) /\ TooltipsOf(name) # {}

\* the maps the node statement nd denotes in the nodes tree of heap h
LeavesIn(h, nd) ==
    {h[t][nd] : t \in {u \in MapsBelow(h, nodes) : nd \in DOMAIN h[u]}}

\* a step keeps every leaf node the same map with every entry it had, and
\* takes from a map of the nodes tree nothing but a node statement
LeavesKept ==
    /\ \A name \in DOMAIN nodemap :
          /\ LeavesIn(heap', nodemap[name]) = LeavesIn(heap, nodemap[name])
          /\ \A id \in LeavesIn(heap, nodemap[name]) :
                DOMAIN heap[id] \subseteq DOMAIN heap'[id]
    /\ \A t \in MapsBelow(heap, nodes) :
          \A key \in DOMAIN heap[t] \ DOMAIN heap'[t] :
              \E name \in DOMAIN nodemap : key = nodemap[name]

\* the tree node(rabs) returned still is the leaf node of the referencer
HandleDenotesLeaf ==
    (phase = "loop" /\ loop.rabs # None /\ loop.r # 0) =>
        LeavesIn(heap, nodemap[loop.rnode0]) = {loop.rtree}

\* the tooltip entries of every pair that was not skipped are under the leaf
\* nodes of its two directories
TooltipsUnderLeaves ==
    \A p \in pairs :
        Emits(p) =>
            /\ p.r # 0 =>
                  {tooltipKey(p.edge.rnode), tooltipKey(p.edge.dnode)} \subseteq TooltipsOf(p.rnode)
            /\ p.d # 0 =>
                  {tooltipKey(p.edge.rnode), tooltipKey(p.edge.dnode)} \subseteq TooltipsOf(p.dnode)

\* C29: relocating a leaf into a newly created cluster preserves the leaf's
\* whole subtree and removes nothing else from the old parent; a tree handle
\* returned by an earlier node() call still denotes the relocated leaf, so
\* the tooltip entries written through it appear under the leaf in the
\* rendered tree.
C29_RelocationKeepsLeaf ==
    /\ [](HandleDenotesLeaf /\ TooltipsUnderLeaves)
    /\ [][LeavesKept]_vars

\* node(dabs) moved the referencer's leaf "m: a" into the cluster of
\* "/m/a/b" and the entries then written through rtree are in the output
C29_Witness ==
    /\ phase = "rendered"
    /\ \E p \in pairs : p.rabs = dMa /\ p.dabs = dMab /\ Emits(p)
    /\ label(modM, <<97>>) \in DOMAIN subgmap
    /\ \E t \in MapsBelow(heap, nodes) :
          /\ closeSubgraph \in DOMAIN heap[t]
          /\ nodemap[label(modM, <<97>>)] \in DOMAIN heap[t]
          /\ subgmap[label(modM, <<97>>)] \notin DOMAIN heap[t]
    /\ TooltipsOf(label(modM, <<97>>)) # {}

(***************************************************************************)
(* signature and typelist (visitor.go): the parameter and result types of  *)
(* a function or method.  An *ast.FieldList is a record: nil tells the nil *)
(* pointer, list holds the fields; a field is the string of its type       *)
(* (types.ExprString) and the number of its names.                         *)
(***************************************************************************)

\* "int", "error", "func(a, b int)": the strings of the types of the fields
tInt == <<105, 110, 116>>
tError == <<101, 114, 114, 111, 114>>
tFunc == <<102, 117, 110, 99, 40, 97, 44, 32, 98, 32, 105, 110, 116, 41>>
FieldTypes == {tInt, tError, tFunc}

\* ", "
commaSpace == <<44, 32>>

\* most names of a field and most fields of a list
MaxNames == 2
MaxFields == 2

\* typ := types.ExprString(fld.Type); typs = append(typs, typ);
\* for i := 1; i < len(fld.Names); i++ { typs = append(typs, typ) }
RECURSIVE fieldTypes(_, _)
fieldTypes(fld, i) ==
    IF i < fld.names THEN <<fld.typ>> \o fieldTypes(fld, i + 1) ELSE <<>>

\* for _, fld := range flds.List
RECURSIVE listTypes(_)
listTypes(list) ==
    IF list = <<>> THEN <<>>
    ELSE <<list[1].typ>> \o fieldTypes(list[1], 1) \o listTypes(Tail(list))

\* typelist reports the types of a list of fields.
typelist(flds) ==
    IF flds.nil THEN <<>> ELSE Join(listTypes(flds.list), commaSpace)

\* the rest of signature, parms and rslts being the two type lists
signatureOf(parms, rslts) ==
    (IF rslts # <<>> THEN parms \o <<32>> ELSE parms)
    \o (IF Contains(rslts, <<44>>) THEN <<32, 40>> \o rslts \o <<41>> ELSE rslts)

\* signature formats the parameter and result types of a function or method.
signature(ftype) ==
    signatureOf(<<40>> \o typelist(ftype.Params) \o <<41>>, typelist(ftype.Results))

\* the field lists of the function types of the analysed source
Fields == [typ : FieldTypes, names : 0..MaxNames]
FieldLists == {[nil |-> FALSE, list |-> l] : l \in SeqsUpTo(Fields, MaxFields)}
NilList == [nil |-> TRUE, list |-> <<>>]

InitSig ==
    /\ IdleTree
    /\ IdleWalk
    /\ IdleSym
    /\ IdleCtl
    /\ IdleGraph
    /\ phase = "extract"
    /\ calls = <<>> /\ left = 0
    /\ fnc \in [Params : FieldLists, Results : FieldLists \cup {NilList}]
    /\ sgn = None

\* the visitor reaches the function type and calls signature(node.Type)
Signature ==
    /\ phase = "extract"
    /\ sgn = None
    /\ sgn' = signature(fnc)
    /\ UNCHANGED <<walkVars, treeVars, symVars, ctlVars, graphVars, calls, left, fnc>>

NextSig == Signature

SpecSig == InitSig /\ [][NextSig]_vars

\* the types a field list contributes: a field with n >= 1 names n times its
\* type, an unnamed field once
RECURSIVE Contributed(_)
Contributed(list) ==
    IF list = <<>> THEN <<>>
    ELSE [i \in 1..(IF list[1].names = 0 THEN 1 ELSE list[1].names) |-> list[1].typ]
         \o Contributed(Tail(list))

\* C24: signature renders "(" + comma-joined parameter types + ")", then
\* " " + the result type when there is exactly one result type,
\* " (" + comma-joined result types + ")" when there are several, nothing
\* when there are none; a field with n >= 1 names contributes n occurrences
\* of its type and an unnamed field one.
C24_SignatureFormat ==
    sgn # None =>
        sgn = <<40>> \o Join(Contributed(fnc.Params.list), commaSpace) \o <<41>>
              \o (IF Len(Contributed(fnc.Results.list)) = 0 THEN <<>>
                  ELSE IF Len(Contributed(fnc.Results.list)) = 1
                       THEN <<32>> \o Contributed(fnc.Results.list)[1]
                       ELSE <<32, 40>> \o Join(Contributed(fnc.Results.list), commaSpace)
                            \o <<41>>)

(***************************************************************************)
(* Specification SpecPhases: Main calls defs4refs and then typesets on the *)
(* trees the extractor may leave.                                          *)
(***************************************************************************)

\* the eight trees
Trees ==
    [imps |-> imps, ifcs |-> ifcs, typs |-> typs, vals |-> vals, fncs |-> fncs,
     defs |-> defs, refs |-> refs, sets |-> sets]

\* "p.V", "p.F()": a value and a function of package p
valV == <<112, 46, 86>>
fncF == <<112, 46, 70, 40, 41>>

InitPhases ==
    /\ IdleTree
    /\ IdleWalk
    /\ IdleCalls
    /\ IdleGraph
    /\ dirmod = dirM
    /\ refs \in {[k \in DOMAIN t |-> [d \in DOMAIN t[k] |-> EmptyTree]] :
                    t \in DirTrees(RefKeys, {dMa, dIx})}
    /\ defs = (kpX :> SetTree({dMa, dMb}))
    /\ imps = (pkgQ :> SetTree({dSf, dMb}))
    /\ ifcs \in {f \in [{ifcI, ifcJ} -> {SetTree(M) : M \in SmallSubsets(IfcMembers, MaxMembers)}] :
                    \A n \in {ifcI, ifcJ} : DOMAIN f[n] \subseteq MayDeclare(n) \ {ifcK}}
    /\ typs = (typ1 :> SetTree({sigM}) @@ typ3 :> SetTree({sigM, sigN}))
    /\ vals = SetTree({valV})
    /\ fncs = SetTree({fncF})
    /\ sets = EmptyTree
    /\ phase = "defs4refs"
    /\ pend = DOMAIN refs
    /\ cur = None /\ must = {} /\ may = {}
    /\ in0 = Trees

\* defs4refs has returned and Main calls typesets
TypesetsStart ==
    /\ Defs4refsDone
    /\ phase' = "expand"
    /\ pend' = DOMAIN ifcs
    /\ in0' = Trees
    /\ UNCHANGED <<callVars, walkVars, treeVars, graphVars, symVars, cur, must, may>>

NextPhases ==
    \/ NextRefs
    \/ TypesetsStart
    \/ NextSets

SpecPhases == InitPhases /\ [][NextPhases]_vars

\* C25: defs4refs changes only References and leaves Imports, Interfaces,
\* Types, Values, Functions, Definitions and Implements unchanged; typesets
\* changes only Interfaces and Implements and leaves References,
\* Definitions, Imports, Types, Values and Functions unchanged.
C25_PhaseFrames ==
    /\ phase = "defs4refs" =>
          \A f \in {"imps", "ifcs", "typs", "vals", "fncs", "defs", "sets"} :
              Trees[f] = in0[f]
    /\ phase \in {"expand", "satisfy"} =>
          \A f \in {"refs", "defs", "imps", "typs", "vals", "fncs"} :
              Trees[f] = in0[f]

\* typesets has returned after it expanded an interface and recorded a type,
\* on References that defs4refs gave targets
C25_Witness ==
    /\ TypesetsDone
    /\ ifcs # in0.ifcs
    /\ sets # in0.sets
    /\ \E ref \in DOMAIN refs : \E abs \in DOMAIN refs[ref] : refs[ref][abs] # EmptyTree
    /\ refs = in0.refs

(***************************************************************************)
(* Specification SpecSetsFair: typesets runs on; a step that can be taken  *)
(* is taken.                                                               *)
(***************************************************************************)

SpecSetsFair == InitSets /\ [][NextSets]_vars /\ WF_vars(NextSets)

====
